---------------------------- MODULE Spec2Model ----------------------------
(***************************************************************************)
(* A model of tk-framework-editorial: the frame/timecode converter and the *)
(* Timecode value of python/edl/timecode.py, and the EditEvent record and  *)
(* the CMX3600 line parser (EditList.read_cmx_edl) of python/edl/edl.py.   *)
(*                                                                         *)
(* Text is modelled as a sequence of one-character strings, so that        *)
(* formatting ("%02d"), regular-expression field extraction (\d{2,3}),     *)
(* str.split, str.startswith and str.isdigit are computed as the code      *)
(* computes them.  A frame rate is carried as an exact number of           *)
(* hundredths (29.97 is 2997), which represents every rate the code and    *)
(* its tests name.  The code is Python 2: "/" on ints is floor division.   *)
(***************************************************************************)
EXTENDS Integers, Sequences, FiniteSets, TLC

VARIABLES
    \* Converter runs (frame_from_timecode / timecode_from_frame):
    cv_pc,      \* "start", "mid" (one conversion applied), "done" (both)
    cv_kind,    \* "frame": the input is a frame number; "tc": a string
    cv_fps,     \* fps argument, in hundredths
    cv_drop,    \* drop argument
    cv_fields,  \* the (h, m, s, f) a "tc" input was written from
    cv_in,      \* the input
    cv_mid,     \* result of the first conversion
    cv_out      \* result of the conversion back

VARIABLES
    \* A count through consecutive drop-frame frame numbers:
    wk_fps,     \* fps, in hundredths (29.97 or 59.94)
    wk_start,   \* frame number the count started from
    wk_frame,   \* current frame number
    wk_label    \* (h, m, s, f) label of the current frame, counted by hand

VARIABLES
    \* One EditEvent and the calls made on it:
    ev,         \* the EditEvent (its fields and its _meta_data)
    ev0,        \* the EditEvent as __init__ left it
    ev_last,    \* the last call made on it and what it raised
    ev_ops      \* number of calls made

VARIABLES
    \* One EditList and the read_cmx_edl call made on it:
    ps_pc,      \* "new", "reading", "done" (returned), "failed" (raised)
    ps_visitor, \* the visitor argument
    ps_fps,     \* the fps argument, in hundredths
    ps_read,    \* the raw lines the loop has taken from the file so far
    ps_line,    \* the local variable line
    ps_title,   \* self._title (None is <<>>)
    ps_edits,   \* self._edits
    ps_edit,    \* the local variable edit: its index in _edits, 0 for None
    ps_visits,  \* the calls made to the visitor: the index of the edit passed
    ps_previous, \* _previous_edit of an EditProcessor visitor: index, 0 for None
    ps_err      \* the exception that left the call, and where it was raised

VARIABLES
    \* The construction of the EditList and the calls made on it before:
    ls_path,    \* extension of the file_path given to __init__ ("none": no path)
    ls_prior    \* title and number of edits the previous call left (<<>>: none)

VARIABLES
    \* One operation on Timecodes:
    ar_pc,      \* "new", "done"
    ar_a,       \* the left Timecode
    ar_b,       \* the other operand: a Timecode or a number of frames
    ar_op,      \* "+" or "-"
    ar_out      \* the result, or the exception raised

VARIABLES
    \* One construction of a Timecode and what is read from it:
    tk_pc,      \* "new", "built" (the constructor returned or raised), "shown"
    tk_text,    \* the timecode_string argument
    tk_fps,     \* the fps argument, in hundredths
    tk_given,   \* whether the drop argument is passed
    tk_drop,    \* the drop argument (the default when not passed)
    tk_obj,     \* the instance, or the exception raised
    tk_str      \* str(instance)

cv_vars == <<cv_pc, cv_kind, cv_fps, cv_drop, cv_fields, cv_in, cv_mid, cv_out>>

wk_vars == <<wk_fps, wk_start, wk_frame, wk_label>>

ev_vars == <<ev, ev0, ev_last, ev_ops>>

ps_vars == <<ps_pc, ps_visitor, ps_fps, ps_read, ps_line, ps_title, ps_edits,
             ps_edit, ps_visits, ps_previous, ps_err>>

tk_vars == <<tk_pc, tk_text, tk_fps, tk_given, tk_drop, tk_obj, tk_str>>

ls_vars == <<ls_path, ls_prior>>
ar_vars == <<ar_pc, ar_a, ar_b, ar_op, ar_out>>

vars == <<cv_vars, wk_vars, ev_vars, ps_vars, tk_vars, ls_vars, ar_vars>>

-----------------------------------------------------------------------------
(* Text helpers.                                                           *)

DigitChars == <<"0", "1", "2", "3", "4", "5", "6", "7", "8", "9">>

IsDigit(c) == c \in {"0", "1", "2", "3", "4", "5", "6", "7", "8", "9"}

DigitVal(c) == CHOOSE d \in 0..9 : DigitChars[d + 1] = c

\* "%d" of a non-negative int.
RECURSIVE DecStr(_)
DecStr(n) ==
    IF n < 10 THEN <<DigitChars[n + 1]>>
    ELSE Append(DecStr(n \div 10), DigitChars[(n % 10) + 1])

\* "%02d" of an int: at least two characters, never truncated; the sign of
\* a negative number counts as a character ("-1", "-10").
Pad2(n) ==
    IF n < 0 THEN <<"-">> \o DecStr(0 - n)
    ELSE IF n < 10 THEN <<"0">> \o DecStr(n)
    ELSE DecStr(n)

\* str.isdigit(): non-empty and made of digits only.
IsDigitStr(s) == Len(s) > 0 /\ \A i \in 1..Len(s) : IsDigit(s[i])

\* int(s) of a digit string.
RECURSIVE IntOf(_)
IntOf(s) ==
    IF Len(s) = 0 THEN 0
    ELSE 10 * IntOf(SubSeq(s, 1, Len(s) - 1)) + DigitVal(s[Len(s)])

\* Result of a call that may raise: err is "none" or the exception's class.
Ok(v) == [err |-> "none", v |-> v]
Raise(kind) == [err |-> kind, v |-> <<>>]

\* The vertical tab, "\x0b".
VerticalTab == ""

\* The whitespace characters, the same for str.split(), for int() and for
\* \s in an expression: space, \t, \n, \r, \x0b, \f.
IsSpace(c) == c \in {" ", "\t", "\n", "\r", VerticalTab, "\f"}

\* Where a run of whitespace (\s*) started at position i stops: the first
\* position from i on that holds no whitespace (Len(s) + 1 when there is
\* none).
SkipSpaces(s, i) ==
    CHOOSE j \in i..(Len(s) + 1) :
        /\ j = Len(s) + 1 \/ ~IsSpace(s[j])
        /\ \A k \in i..(j - 1) : IsSpace(s[k])

\* Where the run of digits that starts at position i of s stops.
RECURSIVE SkipDigits(_, _)
SkipDigits(s, i) ==
    IF i > Len(s) \/ ~IsDigit(s[i]) THEN i ELSE SkipDigits(s, i + 1)

\* int(s) of a str, base 10: whitespace, an optional sign, whitespace again
\* (python 2 skips it after the sign too), at least one digit, whitespace,
\* and nothing else; ValueError otherwise.
ParseInt(s) ==
    LET start  == SkipSpaces(s, 1)
        signed == start <= Len(s) /\ s[start] \in {"+", "-"}
        first  == IF signed THEN SkipSpaces(s, start + 1) ELSE start
        last   == SkipDigits(s, first)
    IN  IF last = first \/ SkipSpaces(s, last) # Len(s) + 1
        THEN Raise("ValueError")
        ELSE IF signed /\ s[start] = "-"
        THEN Ok(0 - IntOf(SubSeq(s, first, last - 1)))
        ELSE Ok(IntOf(SubSeq(s, first, last - 1)))

-----------------------------------------------------------------------------
(* python/edl/timecode.py                                                  *)

DROP_FRAME_DELIMITER == ";"
NON_DROP_FRAME_DELIMITER == ":"

\* Mutant of RoundFps: int(fps), truncating instead of rounding.
RoundFps_Truncate(fps) == fps \div 100

\* int(round(fps)) for fps in hundredths.
RoundFps(fps) == (fps + 50) \div 100

\* int(round(fps * .066666)) for fps in hundredths.
DropFramesOf(fps) == (fps * 66666 + 50000000) \div 100000000

\* fps not in [29.97, 59.94]
DropSupported(fps) == fps \in {2997, 5994}

\* Length (capped at 3) of the run of digits of s that starts at i.
DigitRun(s, i) ==
    IF i > Len(s) \/ ~IsDigit(s[i]) THEN 0
    ELSE IF i + 1 > Len(s) \/ ~IsDigit(s[i + 1]) THEN 1
    ELSE IF i + 2 > Len(s) \/ ~IsDigit(s[i + 2]) THEN 2
    ELSE 3

\* re.findall(r"\d{2,3}", s) from position i: leftmost, greedy,
\* non-overlapping matches.
RECURSIVE FindAllFrom(_, _)
FindAllFrom(s, i) ==
    IF i > Len(s) THEN <<>>
    ELSE LET run == DigitRun(s, i)
         IN  IF run >= 2
             THEN <<SubSeq(s, i, i + run - 1)>> \o FindAllFrom(s, i + run)
             ELSE FindAllFrom(s, i + 1)

\* Timecode.parse_timecode
parse_timecode(timecode_str) ==
    LET fields == FindAllFrom(timecode_str, 1)
    IN  IF Len(fields) # 4 THEN Raise("ValueError")
        ELSE Ok(<<IntOf(fields[1]), IntOf(fields[2]),
                  IntOf(fields[3]), IntOf(fields[4])>>)

\* frame_from_timecode on a (hours, minutes, seconds, frames) tuple.
frame_from_fields(timecode, fps, drop) ==
    IF drop /\ ~DropSupported(fps) THEN Raise("NotImplementedError")
    ELSE
    LET hours   == timecode[1]
        minutes == timecode[2]
        seconds == timecode[3]
        frames  == timecode[4]
        drop_frames_per_minute == IF drop THEN DropFramesOf(fps) ELSE 0
        fps_int == RoundFps(fps)
        frames_per_hour == fps_int * 60 * 60
        frames_per_minute == fps_int * 60
        total_minutes == (60 * hours) + minutes
        frame_number == (frames_per_hour * hours) + (frames_per_minute * minutes)
                        + (fps_int * seconds) + frames
        frames_to_drop == drop_frames_per_minute
                          * (total_minutes - (total_minutes \div 10))
    IN  Ok(frame_number - frames_to_drop)

\* frame_from_timecode on a string.
frame_from_timecode(timecode, fps, drop) ==
    IF drop /\ ~DropSupported(fps) THEN Raise("NotImplementedError")
    ELSE LET p == parse_timecode(timecode)
         IN  IF p.err # "none" THEN p
             ELSE frame_from_fields(p.v, fps, drop)

\* The "%02d:%02d:%02d%s%02d" format shared by timecode_from_frame and
\* Timecode.__str__.
FormatTimecode(hours, minutes, seconds, frames_token, frames) ==
    Pad2(hours) \o <<":">> \o Pad2(minutes) \o <<":">> \o Pad2(seconds)
    \o <<frames_token>> \o Pad2(frames)

\* Mutant of DropCompensated: labels are skipped at every minute, the tenth
\* included.
DropCompensated_EveryMinute(frame_number, fps) ==
    LET drop_frames == DropFramesOf(fps)
        frames_per_min == (RoundFps(fps) * 60) - drop_frames
    IN  frame_number + drop_frames * (frame_number \div frames_per_min)

\* Mutant of DropCompensated: the first minute of a ten-minute chunk is
\* taken to be as short as the other nine.
DropCompensated_ShortFirstMinute(frame_number, fps) ==
    LET drop_frames == DropFramesOf(fps)
        frames_per_10_mins == (fps * 600 + 50) \div 100
        frames_per_min == (RoundFps(fps) * 60) - drop_frames
        ten_minute_chunks == frame_number \div frames_per_10_mins
        remaining_frames == frame_number % frames_per_10_mins
    IN  frame_number + (drop_frames * 9 * ten_minute_chunks)
        + (drop_frames * (remaining_frames \div frames_per_min))

\* Mutant of DropCompensated: only the full ten-minute chunks are
\* compensated, the minutes after them are not.
DropCompensated_ChunksOnly(frame_number, fps) ==
    LET drop_frames == DropFramesOf(fps)
        frames_per_10_mins == (fps * 600 + 50) \div 100
        ten_minute_chunks == frame_number \div frames_per_10_mins
    IN  frame_number + (drop_frames * 9 * ten_minute_chunks)

\* The drop-frame compensation of timecode_from_frame: the frame number
\* with the dropped labels added back.
DropCompensated(frame_number, fps) ==
    LET drop_frames == DropFramesOf(fps)
        frames_per_10_mins == (fps * 600 + 50) \div 100
        frames_per_min == (RoundFps(fps) * 60) - drop_frames
        additional_frames_per_10m == drop_frames * 9
        additional_frames_per_1m == drop_frames
        ten_minute_chunks == frame_number \div frames_per_10_mins
        remaining_frames == frame_number % frames_per_10_mins
        add_frames ==
            IF remaining_frames > drop_frames
            THEN (additional_frames_per_10m * ten_minute_chunks)
                 + (additional_frames_per_1m
                    * ((remaining_frames - drop_frames) \div frames_per_min))
            ELSE additional_frames_per_10m * ten_minute_chunks
    IN  frame_number + add_frames

timecode_from_frame(frame_number, fps, drop) ==
    IF drop /\ ~DropSupported(fps) THEN Raise("NotImplementedError")
    ELSE
    LET fps_int == RoundFps(fps)
        n == IF drop THEN DropCompensated(frame_number, fps) ELSE frame_number
        frames_token == IF drop THEN DROP_FRAME_DELIMITER
                        ELSE NON_DROP_FRAME_DELIMITER
        hours   == n \div (3600 * fps_int)
        minutes == (n \div (60 * fps_int)) % 60
        seconds == (n \div fps_int) % 60
        frames  == n % fps_int
    IN  Ok(FormatTimecode(hours, minutes, seconds, frames_token, frames))

\* Timecode.__init__: the constructed value, or the exception raised.
TimecodeFields(timecode_string, fps, drop) ==
    LET p == parse_timecode(timecode_string)
        frame_number == ParseInt(timecode_string)
        conv == IF frame_number.err # "none" THEN frame_number
                ELSE timecode_from_frame(frame_number.v, fps, drop)
    IN  IF p.err = "none" THEN p
        ELSE IF conv.err # "none" THEN conv
        ELSE parse_timecode(conv.v)

\* Timecode.__init__, after the fields are known: the range checks and the
\* instance.
TimecodeChecked(q, fps, drop) ==
    IF q.err # "none" THEN Raise(q.err)
    ELSE IF q.v[2] > 59 THEN Raise("ValueError")
    ELSE IF q.v[3] > 59 THEN Raise("ValueError")
    ELSE IF q.v[4] * 100 >= fps THEN Raise("BadFrameRateError")
    ELSE Ok([hours |-> q.v[1], minutes |-> q.v[2], seconds |-> q.v[3],
             frames |-> q.v[4], fps |-> fps, drop |-> drop])

Timecode(timecode_string, fps, drop) ==
    TimecodeChecked(TimecodeFields(timecode_string, fps, drop), fps, drop)

\* Timecode.__str__
TimecodeStr(tc) ==
    FormatTimecode(tc.hours, tc.minutes, tc.seconds,
                   IF tc.drop THEN DROP_FRAME_DELIMITER
                   ELSE NON_DROP_FRAME_DELIMITER,
                   tc.frames)

\* Timecode.to_frame
to_frame(tc) ==
    frame_from_fields(<<tc.hours, tc.minutes, tc.seconds, tc.frames>>,
                      tc.fps, tc.drop)

\* Timecode.from_frame
from_frame(frame, fps, drop) ==
    LET s == timecode_from_frame(frame, fps, drop)
    IN  IF s.err # "none" THEN s ELSE Timecode(s.v, fps, drop)

-----------------------------------------------------------------------------
(* python/edl/edl.py: EditEvent                                           *)

\* " ".join(tokens)
RECURSIVE JoinTokens(_)
JoinTokens(tokens) ==
    IF Len(tokens) = 0 THEN <<>>
    ELSE IF Len(tokens) = 1 THEN tokens[1]
    ELSE tokens[1] \o <<" ">> \o JoinTokens(Tail(tokens))

\* EditEvent.__mine, as a set.
Mine ==
    {"_effect", "_comments", "_meta_data", "_retime", "_id", "_reel",
     "_channels", "_source_in", "_source_out", "_record_in", "_record_out"}

\* What the class body leaves in the class beside properties and methods:
\* the two lists under their mangled names, and x, the variable of the loop
\* [x[1:] for x in __mine], which python 2 keeps with its last value.
ClassAttributes ==
    [attr_name \in {"_EditEvent__mine", "_EditEvent__protected", "x"} |->
        CASE attr_name = "_EditEvent__mine" ->
                <<"_effect", "_comments", "_meta_data", "_retime", "_id",
                  "_reel", "_channels", "_source_in", "_source_out",
                  "_record_in", "_record_out">>
          [] attr_name = "_EditEvent__protected" ->
                <<"effect", "comments", "meta_data", "retime", "id",
                  "reel", "channels", "source_in", "source_out",
                  "record_in", "record_out">>
          [] attr_name = "x" -> "_record_out"]

\* The names every instance of a class (object) has beside those the class
\* body defines.
Inherited ==
    {"__class__", "__delattr__", "__dict__", "__doc__", "__format__",
     "__getattribute__", "__hash__", "__module__", "__new__", "__reduce__",
     "__reduce_ex__", "__repr__", "__sizeof__", "__subclasshook__",
     "__weakref__"}

\* EditEvent.__protected = [x[1:] for x in __mine]
Protected ==
    {"effect", "comments", "meta_data", "retime", "id", "reel",
     "channels", "source_in", "source_out", "record_in", "record_out"}

\* The properties the class defines.
Properties ==
    {"id", "reel", "comments", "timecodes", "source_in", "source_out",
     "source_duration", "record_in", "record_out", "record_duration",
     "has_effect", "has_retime"}

\* The methods the class defines.
Methods ==
    {"__init__", "add_effect", "add_comments", "add_retime", "__str__",
     "__setattr__", "__getattr__"}

NoMetaData == [x \in {} |-> 0]

\* EditEvent.__init__: the event, or the exception raised.  None is <<>>.
EditEventOf(id, reel, channels, si, so, ri, ro) ==
    IF si.err # "none" THEN Raise(si.err)
    ELSE IF so.err # "none" THEN Raise(so.err)
    ELSE IF ri.err # "none" THEN Raise(ri.err)
    ELSE IF ro.err # "none" THEN Raise(ro.err)
    ELSE Ok([effect |-> <<>>, comments |-> <<>>, meta_data |-> NoMetaData,
             retime |-> <<>>, id |-> id, reel |-> reel,
             channels |-> channels,
             source_in |-> si.v, source_out |-> so.v,
             record_in |-> ri.v, record_out |-> ro.v])

\* EditEvent.__init__: the four timecodes are built in this order from the
\* given texts, at the given fps.
EditEvent(id, reel, channels, source_in, source_out, record_in, record_out, fps) ==
    EditEventOf(id, reel, channels,
                Timecode(source_in, fps, FALSE), Timecode(source_out, fps, FALSE),
                Timecode(record_in, fps, FALSE), Timecode(record_out, fps, FALSE))

\* object.__setattr__(self, attr_name, value) for a name of __mine.
SetInstanceField(e, attr_name, value) ==
    CASE attr_name = "_effect"     -> [e EXCEPT !.effect = value]
      [] attr_name = "_comments"   -> [e EXCEPT !.comments = value]
      [] attr_name = "_meta_data"  -> [e EXCEPT !.meta_data = value]
      [] attr_name = "_retime"     -> [e EXCEPT !.retime = value]
      [] attr_name = "_id"         -> [e EXCEPT !.id = value]
      [] attr_name = "_reel"       -> [e EXCEPT !.reel = value]
      [] attr_name = "_channels"   -> [e EXCEPT !.channels = value]
      [] attr_name = "_source_in"  -> [e EXCEPT !.source_in = value]
      [] attr_name = "_source_out" -> [e EXCEPT !.source_out = value]
      [] attr_name = "_record_in"  -> [e EXCEPT !.record_in = value]
      [] attr_name = "_record_out" -> [e EXCEPT !.record_out = value]

\* The instance attribute of that name.
InstanceField(e, attr_name) ==
    CASE attr_name = "_effect"     -> e.effect
      [] attr_name = "_comments"   -> e.comments
      [] attr_name = "_meta_data"  -> e.meta_data
      [] attr_name = "_retime"     -> e.retime
      [] attr_name = "_id"         -> e.id
      [] attr_name = "_reel"       -> e.reel
      [] attr_name = "_channels"   -> e.channels
      [] attr_name = "_source_in"  -> e.source_in
      [] attr_name = "_source_out" -> e.source_out
      [] attr_name = "_record_in"  -> e.record_in
      [] attr_name = "_record_out" -> e.record_out

\* EditEvent.__setattr__: the event after the assignment, or the exception.
setattr(e, attr_name, value) ==
    IF attr_name \in Protected THEN Raise("AttributeError")
    ELSE IF attr_name \in Mine THEN Ok(SetInstanceField(e, attr_name, value))
    ELSE Ok([e EXCEPT !.meta_data =
                [x \in DOMAIN e.meta_data \cup {attr_name} |->
                    IF x = attr_name THEN value ELSE e.meta_data[x]]])

\* EditEvent.__getattr__: reached when the normal lookup finds nothing.
getattr_fallback(e, attr_name) ==
    IF attr_name \in DOMAIN e.meta_data THEN Ok(e.meta_data[attr_name])
    ELSE Raise("AttributeError")

\* The value of a property of the class (has_effect reads self._effects,
\* which no code sets: the lookup of _effects ends in __getattr__, and an
\* AttributeError raised by a property sends has_effect to __getattr__ too).
PropertyValue(e, attr_name) ==
    CASE attr_name = "id"         -> Ok(e.id)
      [] attr_name = "reel"       -> Ok(e.reel)
      [] attr_name = "comments"   -> Ok(e.comments)
      [] attr_name = "timecodes"  ->
            Ok(<<e.source_in, e.source_out, e.record_in, e.record_out>>)
      [] attr_name = "source_in"  -> Ok(e.source_in)
      [] attr_name = "source_out" -> Ok(e.source_out)
      [] attr_name = "source_duration" ->
            Ok(to_frame(e.source_out).v - to_frame(e.source_in).v)
      [] attr_name = "record_in"  -> Ok(e.record_in)
      [] attr_name = "record_out" -> Ok(e.record_out)
      [] attr_name = "record_duration" ->
            Ok(to_frame(e.record_out).v - to_frame(e.record_in).v)
      [] attr_name = "has_effect" ->
            LET effects == getattr_fallback(e, "_effects")
            IN  IF effects.err = "none" THEN Ok(effects.v # <<>>)
                ELSE getattr_fallback(e, "has_effect")
      [] attr_name = "has_retime" -> Ok(e.retime # <<>>)

\* Reading e.attr_name: a property of the class first, then the instance's
\* own attributes (the names of __mine: __setattr__ lets no other name in),
\* then the other attributes of the class and of object, then __getattr__.
getattr(e, attr_name) ==
    IF attr_name \in Properties THEN PropertyValue(e, attr_name)
    ELSE IF attr_name \in Mine THEN Ok(InstanceField(e, attr_name))
    ELSE IF attr_name \in Methods THEN Ok("bound method")
    ELSE IF attr_name \in DOMAIN ClassAttributes
    THEN Ok(ClassAttributes[attr_name])
    ELSE IF attr_name \in Inherited THEN Ok("attribute of object")
    ELSE getattr_fallback(e, attr_name)

\* EditEvent.add_effect
add_effect(e, tokens) == [e EXCEPT !.effect = Append(@, JoinTokens(tokens))]

\* Mutant of add_comments: the line is put before the comments already held.
add_comments_AtTheFront(e, comments) ==
    [e EXCEPT !.comments = <<comments>> \o @]

\* EditEvent.add_comments
add_comments(e, comments) == [e EXCEPT !.comments = Append(@, comments)]

\* EditEvent.add_retime
add_retime(e, tokens) == [e EXCEPT !.retime = JoinTokens(tokens)]

-----------------------------------------------------------------------------
(* Converter runs: one conversion, then the conversion back.               *)

\* Frame rates the tests name: 23.98, 24, 29.97, 30, 59.94, 60.
FpsInputs == {2398, 2400, 2997, 3000, 5994, 6000}

\* Frame rates passed as the fps argument: those of the tests and one whose
\* fraction is below one half (24.25, which int(round(fps)) takes down to 24).
FpsArguments == FpsInputs \cup {2425}

ProbeHours == {0, 1, 23, 100, 999, 1000, 1234}
ProbeMinutes == {0, 1, 9, 10, 11, 59, 60}
ProbeSeconds == {0, 1, 59, 60}
ProbeFrames == {0, 1, 2, 3, 4, 23, 24, 29, 30, 59, 60}

\* Labels of tests/test_read.py.
ListedFields ==
    {<<1, 2, 3, 4>>, <<2, 3, 4, 5>>, <<14, 17, 20, 7>>, <<142, 53, 23, 6>>,
     <<11, 25, 52, 7>>, <<217, 11, 32, 29>>, <<5, 42, 56, 7>>,
     <<11, 26, 33, 13>>, <<217, 24, 35, 19>>, <<108, 42, 17, 49>>}

FieldInputs ==
    (ProbeHours \X ProbeMinutes \X ProbeSeconds \X ProbeFrames)
    \cup ListedFields

\* Frame numbers of tests/test_read.py and the drop-frame boundaries.
ListedFrames ==
    {0, 1, 2, 1798, 1799, 1800, 1801, 3597, 3598, 3599, 3600, 3601,
     17981, 17982, 17983, 17984, 35963, 35964, 35965, 35968,
     12332, 1234567, 2345678, 2394732, 8599999, 8640005,
     12345678, 23456789, 864000000}

\* The frame number a label has when no frame is dropped.
NonDropCount(t, F) == t[1] * 3600 * F + t[2] * 60 * F + t[3] * F + t[4]

FrameInputs ==
    ListedFrames
    \cup {NonDropCount(t, F) : t \in {u \in FieldInputs :
                u[2] < 60 /\ u[3] < 60 /\ u[4] < 24}, F \in {24, 30, 60}}

\* The text of a label as a caller writes it.
TcText(t, drop) ==
    FormatTimecode(t[1], t[2], t[3], IF drop THEN ";" ELSE ":", t[4])

CvIdle ==
    /\ cv_pc = "idle" /\ cv_kind = "none" /\ cv_fps = 2400 /\ cv_drop = FALSE
    /\ cv_fields = <<>> /\ cv_in = <<>> /\ cv_mid = <<>> /\ cv_out = <<>>

WkIdle ==
    /\ wk_fps = 2997 /\ wk_start = 0 /\ wk_frame = 0 /\ wk_label = <<>>

EvIdle ==
    /\ ev = <<>> /\ ev0 = <<>> /\ ev_last = <<>> /\ ev_ops = 0

\* ps_err: kind is the class of the exception that leaves the call, raised
\* the class of the one raised in the try block, wrapped tells that its
\* first argument was rewritten as "<args[0]> while parsing <path> at
\* line\n<line>", and line is the text put there.
NoError ==
    [kind |-> "none", at |-> "none", raised |-> "none", wrapped |-> FALSE,
     line |-> <<>>]

\* The exceptions of this model that are raised without arguments (args is
\* the empty tuple): the one of a visitor doing "raise AssertionError()".
ArglessKinds == {"AssertionError"}

\* except Exception, e:
\*     args = ["%s while parsing %s at line\n%s" % (e.args[0], path, line)]
\*            + list(e.args[1:])
\*     e.args = args
\*     raise
\* e.args[0] of an exception without arguments raises IndexError in the
\* handler, and that exception leaves the call.
ExceptClause(kind, at, line) ==
    IF kind \in ArglessKinds
    THEN [kind |-> "IndexError", at |-> at, raised |-> kind, wrapped |-> FALSE,
          line |-> <<>>]
    ELSE [kind |-> kind, at |-> at, raised |-> kind, wrapped |-> TRUE,
          line |-> line]

\* No EditList was constructed with a path or read before.
LsIdle == ls_path = "none" /\ ls_prior = <<>>

\* No operation on Timecodes is under way.
ArIdle ==
    /\ ar_pc = "idle" /\ ar_a = <<>> /\ ar_b = <<>> /\ ar_op = "none"
    /\ ar_out = <<>>

TkIdle ==
    /\ tk_pc = "idle" /\ tk_text = <<>> /\ tk_fps = 2400 /\ tk_given = FALSE
    /\ tk_drop = FALSE /\ tk_obj = <<>> /\ tk_str = <<>>

PsIdle ==
    /\ ps_pc = "idle" /\ ps_visitor = "none" /\ ps_fps = 2400
    /\ ps_read = <<>> /\ ps_line = <<>> /\ ps_title = <<>> /\ ps_edits = <<>>
    /\ ps_edit = 0 /\ ps_visits = <<>> /\ ps_previous = 0 /\ ps_err = NoError

CvInit ==
    /\ cv_pc = "start"
    /\ cv_fps \in FpsArguments
    /\ cv_drop \in BOOLEAN
    /\ cv_kind \in {"frame", "tc"}
    /\ IF cv_kind = "frame"
       THEN cv_fields = <<>> /\ cv_in \in FrameInputs
       ELSE cv_fields \in FieldInputs /\ cv_in = TcText(cv_fields, cv_drop)
    /\ cv_mid = <<>>
    /\ cv_out = <<>>
    /\ WkIdle
    /\ EvIdle
    /\ PsIdle
    /\ TkIdle
    /\ LsIdle
    /\ ArIdle

\* timecode_from_frame(frame, fps, drop)
CallTimecodeFromFrame ==
    /\ cv_pc = "start" /\ cv_kind = "frame"
    /\ cv_mid' = timecode_from_frame(cv_in, cv_fps, cv_drop)
    /\ cv_pc' = "mid"
    /\ UNCHANGED <<cv_kind, cv_fps, cv_drop, cv_fields, cv_in, cv_out>>
    /\ UNCHANGED <<wk_vars, ev_vars, ps_vars, tk_vars, ls_vars,
                 ar_vars>>

\* frame_from_timecode(tc, fps, drop)
CallFrameFromTimecode ==
    /\ cv_pc = "start" /\ cv_kind = "tc"
    /\ cv_mid' = frame_from_timecode(cv_in, cv_fps, cv_drop)
    /\ cv_pc' = "mid"
    /\ UNCHANGED <<cv_kind, cv_fps, cv_drop, cv_fields, cv_in, cv_out>>
    /\ UNCHANGED <<wk_vars, ev_vars, ps_vars, tk_vars, ls_vars,
                 ar_vars>>

\* frame_from_timecode(timecode_from_frame(frame, fps, drop), fps, drop)
BackToFrame ==
    /\ cv_pc = "mid" /\ cv_kind = "frame" /\ cv_mid.err = "none"
    /\ cv_out' = frame_from_timecode(cv_mid.v, cv_fps, cv_drop)
    /\ cv_pc' = "done"
    /\ UNCHANGED <<cv_kind, cv_fps, cv_drop, cv_fields, cv_in, cv_mid>>
    /\ UNCHANGED <<wk_vars, ev_vars, ps_vars, tk_vars, ls_vars,
                 ar_vars>>

\* timecode_from_frame(frame_from_timecode(tc, fps, drop), fps, drop)
BackToTimecode ==
    /\ cv_pc = "mid" /\ cv_kind = "tc" /\ cv_mid.err = "none"
    /\ cv_out' = timecode_from_frame(cv_mid.v, cv_fps, cv_drop)
    /\ cv_pc' = "done"
    /\ UNCHANGED <<cv_kind, cv_fps, cv_drop, cv_fields, cv_in, cv_mid>>
    /\ UNCHANGED <<wk_vars, ev_vars, ps_vars, tk_vars, ls_vars,
                 ar_vars>>

CvNext ==
    \/ CallTimecodeFromFrame
    \/ CallFrameFromTimecode
    \/ BackToFrame
    \/ BackToTimecode

SpecConv == CvInit /\ [][CvNext]_vars

\* Number of digits the regular expression of parse_timecode takes for one
\* field at most ("This supports timecode up to 999:59:59:59").
MaxFieldDigits == 3

\* Number of digits of the hours field of a formatted timecode.
HoursDigits(text) == Len(text) - 9

\* C2 as stated: frame_from_timecode(timecode_from_frame(frame, fps, drop),
\* fps, drop) == frame for every frame >= 0 and every supported (fps, drop),
\* also when the hours field needs more than three digits.
C2_FrameRoundTripAnyHours ==
    (cv_pc = "done" /\ cv_kind = "frame") => cv_out = Ok(cv_in)

\* C2 amended: the frame round trip holds for every frame >= 0 whose
\* timecode has an hours field of at most three digits (up to 999:59:59:59),
\* at every supported (fps, drop).
C2_FrameRoundTrip ==
    (cv_pc = "done" /\ cv_kind = "frame"
        /\ HoursDigits(cv_mid.v) <= MaxFieldDigits)
    => cv_out = Ok(cv_in)

\* C2 witness: a drop-frame round trip through a three-digit hours field
\* (23456789 at 29.97 is 217:24:35;19).
C2_Witness ==
    /\ cv_pc = "done" /\ cv_kind = "frame" /\ cv_drop /\ cv_fps = 2997
    /\ cv_in = 23456789
    /\ HoursDigits(cv_mid.v) = 3
    /\ cv_out = Ok(23456789)

\* A label whose seconds are 0 and whose frames are below the number
\* dropped, in a minute that is not a multiple of 10, is a label drop-frame
\* counting skips.
DroppedLabel(t, fps) ==
    t[3] = 0 /\ t[4] < DropFramesOf(fps) /\ t[2] % 10 # 0

\* C3: timecode_from_frame(frame_from_timecode(tc, fps, drop), fps, drop)
\* == tc for every canonical string the Timecode constructor accepts at the
\* given fps and drop.
C3_TimecodeRoundTripAnyAccepted ==
    (cv_pc = "done" /\ cv_kind = "tc"
        /\ Timecode(cv_in, cv_fps, cv_drop).err = "none")
    => cv_out = Ok(cv_in)

\* The integer nearest to a frame rate given in hundredths.
NearestInt(fps) == CHOOSE k \in 1..100 : 100 * k - 50 <= fps /\ fps < 100 * k + 50

\* C5: in non-drop mode frame_from_timecode(h:m:s:f, fps) is
\* h*3600*F + m*60*F + s*F + f with F the integer nearest to fps (for the
\* tuple form at any hours, for the string form in its hh:mm:ss:ff format of
\* up to three digits per field), and timecode_from_frame(frame, fps) is the
\* same string for every fps with the same F.
C5_NonDropOnlyThroughRoundedFps ==
    /\ (cv_kind = "tc" /\ ~cv_drop /\ cv_pc \in {"mid", "done"})
       => /\ frame_from_fields(cv_fields, cv_fps, FALSE)
               = Ok(NonDropCount(cv_fields, NearestInt(cv_fps)))
          /\ HoursDigits(cv_in) <= MaxFieldDigits
               => cv_mid = Ok(NonDropCount(cv_fields, NearestInt(cv_fps)))
    /\ (cv_kind = "frame" /\ ~cv_drop /\ cv_pc \in {"mid", "done"})
       => \A g \in FpsArguments :
              NearestInt(g) = NearestInt(cv_fps)
              => timecode_from_frame(cv_in, g, FALSE) = cv_mid

\* C5 witness: 14:17:20:07 at 23.98 converts as at 24, to frame 1234567.
C5_Witness ==
    /\ cv_kind = "tc" /\ ~cv_drop /\ cv_pc = "mid" /\ cv_fps = 2398
    /\ cv_fields = <<14, 17, 20, 7>>
    /\ cv_mid = Ok(1234567)

-----------------------------------------------------------------------------
(* Counting through consecutive frames in drop-frame mode: the label of    *)
(* each frame is counted by hand, one frame at a time, and the converter   *)
(* is called on every frame number passed.                                 *)

\* Number of consecutive frames counted from each starting point: more than
\* ten minutes at 59.94 (35964 frames), twenty at 29.97.
WalkFrames == 36000

\* Frames dropped per minute in the reference scheme.
RefDropped(fps) == IF fps = 2997 THEN 2 ELSE 4

\* The label after t when counting at F labels per second and skipping the
\* first D labels of every minute that is not a multiple of 10.
RefNextLabel(t, F, D) ==
    LET f1 == IF t[4] + 1 = F THEN 0 ELSE t[4] + 1
        c1 == IF t[4] + 1 = F THEN 1 ELSE 0
        s1 == IF t[3] + c1 = 60 THEN 0 ELSE t[3] + c1
        c2 == IF t[3] + c1 = 60 THEN 1 ELSE 0
        m1 == IF t[2] + c2 = 60 THEN 0 ELSE t[2] + c2
        c3 == IF t[2] + c2 = 60 THEN 1 ELSE 0
        h1 == t[1] + c3
    IN  IF c2 = 1 /\ m1 % 10 # 0 THEN <<h1, m1, 0, D>>
        ELSE <<h1, m1, s1, f1>>

\* Starting points: frame 0, and the drop-frame rows of the reference table
\* of tests/test_read.py (fps, frame, label).
WalkStarts ==
    {<<2997, 0, <<0, 0, 0, 0>>>>,
     <<2997, 1234567, <<11, 26, 33, 13>>>>,
     <<2997, 12345678, <<114, 25, 34, 16>>>>,
     <<5994, 0, <<0, 0, 0, 0>>>>,
     <<5994, 1234567, <<5, 43, 16, 43>>>>,
     <<5994, 23456789, <<108, 42, 17, 49>>>>}

WkInit ==
    /\ \E a \in WalkStarts :
          /\ wk_fps = a[1]
          /\ wk_start = a[2]
          /\ wk_frame = a[2]
          /\ wk_label = a[3]
    /\ CvIdle
    /\ EvIdle
    /\ PsIdle
    /\ TkIdle
    /\ LsIdle
    /\ ArIdle

\* One frame further: timecode_from_frame and frame_from_timecode are called
\* on the frame reached (they keep no state).
WalkStep ==
    /\ wk_frame - wk_start < WalkFrames
    /\ wk_frame' = wk_frame + 1
    /\ wk_label' = RefNextLabel(wk_label, NearestInt(wk_fps), RefDropped(wk_fps))
    /\ UNCHANGED <<wk_fps, wk_start>>
    /\ UNCHANGED <<cv_vars, ev_vars, ps_vars, tk_vars, ls_vars,
                 ar_vars>>

WkNext == WalkStep

SpecWalk == WkInit /\ [][WkNext]_vars

\* C4: in drop-frame mode timecode_from_frame gives every frame the label
\* the reference scheme gives it (1799 is 00:00:59;29 and 1800 is 00:01:00;02
\* at 29.97), and frame_from_timecode gives that label the frame's number,
\* which is the non-drop count minus D * (total_minutes - total_minutes div 10).
C4_DropFrameMatchesReference ==
    LET F == NearestInt(wk_fps)
        D == RefDropped(wk_fps)
        total_minutes == 60 * wk_label[1] + wk_label[2]
        by_formula == NonDropCount(wk_label, F)
                      - D * (total_minutes - total_minutes \div 10)
    IN  /\ timecode_from_frame(wk_frame, wk_fps, TRUE) = Ok(TcText(wk_label, TRUE))
        /\ by_formula = wk_frame
        /\ frame_from_fields(wk_label, wk_fps, TRUE) = Ok(by_formula)
        /\ frame_from_timecode(TcText(wk_label, TRUE), wk_fps, TRUE) = Ok(by_formula)
        /\ (wk_fps = 2997 /\ wk_frame = 1799)
           => timecode_from_frame(wk_frame, wk_fps, TRUE)
                = Ok(<<"0", "0", ":", "0", "0", ":", "5", "9", ";", "2", "9">>)
        /\ (wk_fps = 2997 /\ wk_frame = 1800)
           => timecode_from_frame(wk_frame, wk_fps, TRUE)
                = Ok(<<"0", "0", ":", "0", "1", ":", "0", "0", ";", "0", "2">>)

\* C4 witness: the count has passed the first minute boundary at 29.97, where
\* labels ;00 and ;01 are skipped.
C4_Witness ==
    /\ wk_fps = 2997 /\ wk_start = 0 /\ wk_frame = 1800
    /\ wk_label = <<0, 1, 0, 2>>
    /\ timecode_from_frame(1800, 2997, TRUE).err = "none"

-----------------------------------------------------------------------------
(* Calls on one EditEvent, by a visitor or any other caller.               *)

\* Number of calls made on the event.
MaxCalls == 3

\* "00:00:00:00", "00:00:01:00", "01:00:00:00", "01:00:01:00"
TextTc0 == <<"0", "0", ":", "0", "0", ":", "0", "0", ":", "0", "0">>
TextTc1 == <<"0", "0", ":", "0", "0", ":", "0", "1", ":", "0", "0">>
TextTc2 == <<"0", "1", ":", "0", "0", ":", "0", "0", ":", "0", "0">>
TextTc3 == <<"0", "1", ":", "0", "0", ":", "0", "1", ":", "0", "0">>

\* "00:59:59:09"
TextTc5959 == <<"0", "0", ":", "5", "9", ":", "5", "9", ":", "0", "9">>

\* Attribute names assigned to: the names of __protected, some names of
\* __mine, two properties that have no field of their own, a name the class
\* holds as an attribute (x), and new names (private_id is the one
\* tests/test_read.py dummy_visitor sets, _name one that process_edit sets).
AttrNames ==
    Protected
    \cup {"_id", "_reel", "_comments"}
    \cup {"has_retime", "source_duration"}
    \cup {"x"}
    \cup {"private_id", "_name"}

\* The value assigned under each name (of the type read under that name).
AttrValue(attr_name) ==
    CASE attr_name \in {"_reel", "reel", "_name"} -> <<"Z", "Z">>
      [] attr_name \in {"_comments", "comments"} -> << <<"*", "Z">> >>
      [] attr_name = "has_retime" -> TRUE
      [] attr_name = "x" -> "_id"
      [] OTHER -> 7

EvInit ==
    /\ \E id \in {1, 2} :
          ev = EditEvent(id, <<"A", "X">>, <<"V">>,
                         TextTc0, TextTc1, TextTc2, TextTc3, 2400).v
    /\ ev0 = ev
    /\ ev_last = [op |-> "__init__", name |-> "", value |-> 0, err |-> "none"]
    /\ ev_ops = 0
    /\ CvIdle
    /\ WkIdle
    /\ PsIdle
    /\ TkIdle
    /\ LsIdle
    /\ ArIdle

\* edit.<attr_name> = value
EvSetAttr ==
    /\ ev_ops < MaxCalls
    /\ \E attr_name \in AttrNames :
          LET r == setattr(ev, attr_name, AttrValue(attr_name))
          IN  /\ ev' = IF r.err = "none" THEN r.v ELSE ev
              /\ ev_last' = [op |-> "__setattr__", name |-> attr_name,
                             value |-> AttrValue(attr_name), err |-> r.err]
    /\ ev_ops' = ev_ops + 1
    /\ UNCHANGED <<ev0, cv_vars, wk_vars, ps_vars, tk_vars, ls_vars,
                 ar_vars>>

\* edit.add_comments(line)
EvAddComments ==
    /\ ev_ops < MaxCalls
    /\ ev' = add_comments(ev, <<"*", " ", "K">>)
    /\ ev_last' = [op |-> "add_comments", name |-> "", value |-> 0, err |-> "none"]
    /\ ev_ops' = ev_ops + 1
    /\ UNCHANGED <<ev0, cv_vars, wk_vars, ps_vars, tk_vars, ls_vars,
                 ar_vars>>

\* edit.add_effect(tokens)
EvAddEffect ==
    /\ ev_ops < MaxCalls
    /\ ev' = add_effect(ev, << <<"0", "0", "2">>, <<"A", "X">>, <<"V">>, <<"D">> >>)
    /\ ev_last' = [op |-> "add_effect", name |-> "", value |-> 0, err |-> "none"]
    /\ ev_ops' = ev_ops + 1
    /\ UNCHANGED <<ev0, cv_vars, wk_vars, ps_vars, tk_vars, ls_vars,
                 ar_vars>>

\* edit.add_retime(tokens)
EvAddRetime ==
    /\ ev_ops < MaxCalls
    /\ ev' = add_retime(ev, << <<"M", "2">>, <<"A", "X">>, <<"1", "2">> >>)
    /\ ev_last' = [op |-> "add_retime", name |-> "", value |-> 0, err |-> "none"]
    /\ ev_ops' = ev_ops + 1
    /\ UNCHANGED <<ev0, cv_vars, wk_vars, ps_vars, tk_vars, ls_vars,
                 ar_vars>>

EvNext ==
    \/ EvSetAttr
    \/ EvAddComments
    \/ EvAddEffect
    \/ EvAddRetime

SpecEvent == EvInit /\ [][EvNext]_vars

\* C7: assigning to a reserved name raises AttributeError and stores
\* nothing; assigning to any other name succeeds, reading the name back
\* returns the value assigned, and the metadata map holds it under that name.
C7_SetAttrReservedOrStored ==
    ev_last.op = "__setattr__" =>
        IF ev_last.name \in Protected
        THEN /\ ev_last.err = "AttributeError"
             /\ ev_last.name \notin DOMAIN ev.meta_data
        ELSE /\ ev_last.err = "none"
             /\ getattr(ev, ev_last.name) = Ok(ev_last.value)
             /\ ev_last.name \in DOMAIN ev.meta_data
             /\ ev.meta_data[ev_last.name] = ev_last.value

\* C8: what id, reel, channels, source_in, source_out, record_in and
\* record_out return never changes after construction, whatever is assigned
\* to the event and whatever add_* call is made on it.
C8_CoreFieldsNeverChange ==
    \A n \in {"id", "reel", "channels", "source_in", "source_out",
              "record_in", "record_out"} :
        getattr(ev, n) = getattr(ev0, n)

-----------------------------------------------------------------------------
(* python/edl/edl.py: EditList.read_cmx_edl                               *)

\* The end-of-file marker byte "\x1a" is written "^Z".
EofMark == "^Z"

\* line.replace("\x1a", "")
RemoveEofMarks(s) == SelectSeq(s, LAMBDA c : c # EofMark)

\* s.strip(" \n"): spaces and newlines removed from both ends (tabs stay).
RECURSIVE StripChars(_)
StripChars(s) ==
    IF Len(s) = 0 THEN s
    ELSE IF s[1] \in {" ", "\n"} THEN StripChars(Tail(s))
    ELSE IF s[Len(s)] \in {" ", "\n"} THEN StripChars(SubSeq(s, 1, Len(s) - 1))
    ELSE s

\* line = line.replace("\x1a", "").strip(" \n")
Normalize(raw) == StripChars(RemoveEofMarks(raw))

\* s.split(): the maximal runs of non-whitespace characters.
RECURSIVE SplitFrom(_, _, _)
SplitFrom(s, i, cur) ==
    IF i > Len(s) THEN (IF cur = <<>> THEN <<>> ELSE <<cur>>)
    ELSE IF IsSpace(s[i])
         THEN (IF cur = <<>> THEN <<>> ELSE <<cur>>) \o SplitFrom(s, i + 1, <<>>)
         ELSE SplitFrom(s, i + 1, Append(cur, s[i]))

Split(s) == SplitFrom(s, 1, <<>>)

\* s.startswith(prefix)
StartsWith(s, prefix) ==
    Len(s) >= Len(prefix) /\ SubSeq(s, 1, Len(prefix)) = prefix

TextTitlePrefix == <<"T", "I", "T", "L", "E", ":">>
TextFcmPrefix == <<"F", "C", "M", ":">>
TextDropFrame == <<"D", "R", "O", "P", " ", "F", "R", "A", "M", "E">>
TextM2 == <<"M", "2">>
TextC == <<"C">>

\* Which branch of the if/elif chain of read_cmx_edl a normalized line takes.
\* A line of tabs only is not empty and has no token: line_tokens[0] raises
\* IndexError.
Classify(line) ==
    LET line_tokens == Split(line)
    IN  IF line = <<>> THEN "blank"
        ELSE IF StartsWith(line, TextTitlePrefix) THEN "title"
        ELSE IF StartsWith(line, TextFcmPrefix) THEN "fcm"
        ELSE IF line_tokens = <<>> THEN "no_tokens"
        ELSE IF StartsWith(line_tokens[1], <<"*">>) THEN "comment"
        ELSE IF line_tokens[1] = TextM2 THEN "retime"
        ELSE IF IsDigitStr(line_tokens[1]) THEN "event"
        ELSE "other"

\* Mutant of CutTimecodeTokens: the timecodes are read at fixed positions
\* after the type instead of from the end of the line.
CutTimecodeTokens_FromTheFront(line_tokens) ==
    IF Len(line_tokens) < 8
    THEN <<line_tokens[Len(line_tokens) - 3], line_tokens[Len(line_tokens) - 2],
           line_tokens[Len(line_tokens) - 1], line_tokens[Len(line_tokens)]>>
    ELSE <<line_tokens[5], line_tokens[6], line_tokens[7], line_tokens[8]>>

\* line_tokens[-4], line_tokens[-3], line_tokens[-2], line_tokens[-1]
CutTimecodeTokens(line_tokens) ==
    <<line_tokens[Len(line_tokens) - 3], line_tokens[Len(line_tokens) - 2],
      line_tokens[Len(line_tokens) - 1], line_tokens[Len(line_tokens)]>>

-----------------------------------------------------------------------------
(* python/edl/edl.py: _COMMENTS_KEYWORDS, _COMMENT_REGEXP                 *)

\* _COMMENTS_KEYWORDS, in the order of the list.
CommentsKeywords ==
    <<<<"L", "O", "C">>,
      <<"S", "O", "U", "R", "C", "E", " ", "F", "I", "L", "E">>,
      <<"F", "R", "O", "M", " ", "C", "L", "I", "P", " ", "N", "A", "M", "E">>,
      <<"A", "S", "C", "_", "S", "O", "P">>,
      <<"A", "S", "C", "_", "S", "A", "T">>>>

\* s holds the text t from position i on.
HoldsAt(s, i, t) ==
    /\ i + Len(t) - 1 <= Len(s)
    /\ SubSeq(s, i, i + Len(t) - 1) = t

\* _COMMENT_REGEXP.match(comment) is not None, the expression being
\* \*\s*(?P<type>(?:LOC)|(?:SOURCE FILE)|...)\s*:\s+(?P<value>.*)
CommentRegexpMatches(comment) ==
    /\ Len(comment) >= 1
    /\ comment[1] = "*"
    /\ \E keyword \in {CommentsKeywords[k] : k \in DOMAIN CommentsKeywords} :
          /\ HoldsAt(comment, SkipSpaces(comment, 2), keyword)
          /\ LET colon == SkipSpaces(comment,
                                     SkipSpaces(comment, 2) + Len(keyword))
             IN  /\ colon + 1 <= Len(comment)
                 /\ comment[colon] = ":"
                 /\ IsSpace(comment[colon + 1])

\* The value group of _COMMENT_REGEXP, (?P<value>.*): what follows the
\* whitespace after the colon, up to the end of the comment or to the first
\* newline.
RECURSIVE UpToNewline(_)
UpToNewline(s) ==
    IF Len(s) = 0 \/ s[1] = "\n" THEN <<>>
    ELSE <<s[1]>> \o UpToNewline(Tail(s))

\* m = _COMMENT_REGEXP.match(comment): None (<<>>), or the two groups.
CommentMatch(comment) ==
    IF ~CommentRegexpMatches(comment) THEN <<>>
    ELSE LET type == CommentsKeywords[
                         CHOOSE k \in DOMAIN CommentsKeywords :
                             HoldsAt(comment, SkipSpaces(comment, 2),
                                     CommentsKeywords[k])]
             colon == SkipSpaces(comment,
                                 SkipSpaces(comment, 2) + Len(type))
         IN  [type |-> type,
              value |-> UpToNewline(SubSeq(comment,
                                           SkipSpaces(comment, colon + 1),
                                           Len(comment)))]

-----------------------------------------------------------------------------
(* python/edl/edl.py: process_edit, EditProcessor                          *)

\* edit.<attr_name> = value for a name that is neither in __protected nor in
\* __mine: the value goes to the meta data.
SetMeta(e, attr_name, value) == setattr(e, attr_name, value).v

\* The eight runtime attributes process_edit starts with, all None.
RuntimeAttributes ==
    {"_name", "_tape", "_shot_name", "_clip_name", "_asc_sop", "_asc_sat",
     "_type", "_format"}

\* edit._name = None ... edit._format = None
WithRuntimeAttributes(e) ==
    [e EXCEPT !.meta_data =
        [x \in DOMAIN e.meta_data \cup RuntimeAttributes |->
            IF x \in RuntimeAttributes THEN <<>> ELSE e.meta_data[x]]]

\* The body of "for comment in edit.comments" for one comment: the edit
\* after it, and the exception it raised (value.split()[-1] on a value
\* without token is an IndexError).  The types are LOC, SOURCE FILE, FROM
\* CLIP NAME, ASC_SOP and ASC_SAT, in the order of _COMMENTS_KEYWORDS.
TreatComment(e, comment) ==
    LET m == CommentMatch(comment)
    IN  IF m = <<>> THEN [err |-> "none", v |-> e]
        ELSE IF m.type = CommentsKeywords[1]
        THEN [err |-> "none",
              v |-> IF Len(Split(m.value)) > 2
                    THEN SetMeta(e, "_name", Split(m.value)[3])
                    ELSE e]
        ELSE IF m.type = CommentsKeywords[2]
        THEN IF Split(m.value) = <<>> THEN [err |-> "IndexError", v |-> e]
             ELSE [err |-> "none",
                   v |-> SetMeta(e, "_tape",
                                 Split(m.value)[Len(Split(m.value))])]
        ELSE IF m.type = CommentsKeywords[3]
        THEN [err |-> "none", v |-> SetMeta(e, "_clip_name", m.value)]
        ELSE IF m.type = CommentsKeywords[4]
        THEN [err |-> "none", v |-> SetMeta(e, "_asc_sop", m.value)]
        ELSE [err |-> "none", v |-> SetMeta(e, "_asc_sat", m.value)]

\* for comment in edit.comments: ..., from the k-th comment on; the loop
\* stops at the first exception.
RECURSIVE TreatComments(_, _)
TreatComments(e, k) ==
    IF k > Len(e.comments) THEN [err |-> "none", v |-> e]
    ELSE LET r == TreatComment(e, e.comments[k])
         IN  IF r.err # "none" THEN r ELSE TreatComments(r.v, k + 1)

\* \w and \d of a shot_regexp.
IsWordChar(c) ==
    \/ IsDigit(c)
    \/ c = "_"
    \/ c \in {"a", "b", "c", "d", "e", "f", "g", "h", "i", "j", "k", "l", "m",
              "n", "o", "p", "q", "r", "s", "t", "u", "v", "w", "x", "y", "z"}
    \/ c \in {"A", "B", "C", "D", "E", "F", "G", "H", "I", "J", "K", "L", "M",
              "N", "O", "P", "Q", "R", "S", "T", "U", "V", "W", "X", "Y", "Z"}

\* The shot_regexp argument when it is not None (<<>>): the expression of
\* TestRead.advanced_visitor,
\*   (?P<shot_name>\w+)_(?P<type>\w\w\d\d)_(?P<version>[V,v]\d+)$
\* with its number of groups and the names of its groups.
AdvancedRegexp ==
    [groups |-> 3, groupindex |-> {"shot_name", "type", "version"}]

\* Position of the first digit of the run of digits that ends s
\* (Len(s) + 1 when s does not end with a digit).
RECURSIVE TrailingDigitsFrom(_, _)
TrailingDigitsFrom(s, i) ==
    IF i > 1 /\ IsDigit(s[i - 1]) THEN TrailingDigitsFrom(s, i - 1) ELSE i

\* Position where the run of \w characters that ends at position i starts.
RECURSIVE WordRunFrom(_, _)
WordRunFrom(s, i) ==
    IF i > 1 /\ IsWordChar(s[i - 1]) THEN WordRunFrom(s, i - 1) ELSE i

\* m = AdvancedRegexp.search(name) for a name that $ takes at its end: None
\* (<<>>), or the three groups.  The
\* version is the digits that end the name and the letter before them, the
\* type the four characters before the "_" in front of the version, and the
\* shot name the longest run of \w characters that ends before the "_" in
\* front of the type (the leftmost place where a match starts).
AdvancedSearchToEnd(name) ==
    LET d == TrailingDigitsFrom(name, Len(name) + 1)
    IN  IF \/ d > Len(name)
           \/ d < 9
           \/ name[d - 1] \notin {"V", ",", "v"}
           \/ name[d - 2] # "_"
           \/ ~IsDigit(name[d - 3]) \/ ~IsDigit(name[d - 4])
           \/ ~IsWordChar(name[d - 5]) \/ ~IsWordChar(name[d - 6])
           \/ name[d - 7] # "_"
           \/ ~IsWordChar(name[d - 8])
        THEN <<>>
        ELSE [shot_name |-> SubSeq(name, WordRunFrom(name, d - 8), d - 8),
              type |-> SubSeq(name, d - 6, d - 3),
              version |-> SubSeq(name, d - 1, Len(name))]

\* $ is the end of the name, or the place before a newline that ends it.
AdvancedSearch(name) ==
    IF Len(name) > 0 /\ name[Len(name)] = "\n"
    THEN AdvancedSearchToEnd(SubSeq(name, 1, Len(name) - 1))
    ELSE AdvancedSearchToEnd(name)

\* The end of process_edit: edit._shot_name = edit._name, then what the
\* shot_regexp finds in the name.  An expression with one group gives the
\* shot name by that group; one with more groups must name one shot_name
\* (ValueError otherwise), and its groups type, format and version are kept
\* when it has them.
ExtractShotName(e, shot_regexp) ==
    LET named == SetMeta(e, "_shot_name", e.meta_data["_name"])
        m == AdvancedSearch(e.meta_data["_name"])
        grid == shot_regexp.groupindex
        shot == SetMeta(named, "_shot_name", m.shot_name)
        typed == IF "type" \in grid THEN SetMeta(shot, "_type", m.type)
                 ELSE shot
        formatted == IF "format" \in grid
                     THEN SetMeta(typed, "_format", m.format)
                     ELSE typed
    IN  IF e.meta_data["_name"] = <<>> \/ shot_regexp = <<>>
        THEN [err |-> "none", v |-> named]
        ELSE IF m = <<>> THEN [err |-> "none", v |-> named]
        ELSE IF shot_regexp.groups = 1 THEN [err |-> "none", v |-> shot]
        ELSE IF "shot_name" \notin grid
        THEN [err |-> "ValueError", v |-> named]
        ELSE [err |-> "none",
              v |-> IF "version" \in grid
                    THEN SetMeta(formatted, "_version", m.version)
                    ELSE formatted]

\* process_edit(edit, logger, shot_regexp): the edit as the call leaves it
\* (it is changed in place, also when the call raises), and the exception
\* raised.
process_edit(edit, shot_regexp) ==
    LET r == TreatComments(WithRuntimeAttributes(edit), 1)
    IN  IF r.err # "none" THEN r ELSE ExtractShotName(r.v, shot_regexp)

\* The visitors: those of tests/test_read.py, the two of edl.py, and one
\* that raises an exception without arguments.
\*   dummy_visitor:             edit.private_id = edit.id
\*   failing_property_override: edit.id = "foo"
\*   advanced_visitor:          process_edit(edit, logger, shot_regexp=...)
\*   process_edit:              the function of edl.py, shot_regexp=None
\*   EditProcessor.process:     the bound method of an EditProcessor()
\*   bare_raise_visitor:        raise AssertionError()
Visitors ==
    {"none", "dummy_visitor", "failing_property_override",
     "advanced_visitor", "process_edit", "EditProcessor.process",
     "bare_raise_visitor"}

\* visitor(edit, logger): the exception raised, and the edit as the call
\* leaves it.
CallVisitor(visitor, e) ==
    IF visitor = "dummy_visitor"
    THEN [err |-> "none", v |-> SetMeta(e, "private_id", getattr(e, "id").v)]
    ELSE IF visitor = "bare_raise_visitor"
    THEN [err |-> "AssertionError", v |-> e]
    ELSE IF visitor = "advanced_visitor" THEN process_edit(e, AdvancedRegexp)
    ELSE IF visitor \in {"process_edit", "EditProcessor.process"}
    THEN process_edit(e, <<>>)
    ELSE [err |-> setattr(e, "id", <<"f", "o", "o">>).err, v |-> e]

\* The raw lines a file is made of.

\* "TITLE: MY SHOW\n"
LineTitle ==
    <<"T", "I", "T", "L", "E", ":", " ", "M", "Y", " ", "S", "H", "O", "W",
      "\n">>

\* "FCM: NON DROP FRAME\n"
LineFcmNonDrop ==
    <<"F", "C", "M", ":", " ", "N", "O", "N", " ", "D", "R", "O", "P", " ",
      "F", "R", "A", "M", "E", "\n">>

\* "FCM: DROP FRAME\n"
LineFcmDrop ==
    <<"F", "C", "M", ":", " ", "D", "R", "O", "P", " ", "F", "R", "A", "M",
      "E", "\n">>

\* "* LOC: 01:00:00:12 YELLOW SH010\n"
LineCommentLoc ==
    <<"*", " ", "L", "O", "C", ":", " ", "0", "1", ":", "0", "0", ":", "0",
      "0", ":", "1", "2", " ", "Y", "E", "L", "L", "O", "W", " ", "S", "H",
      "0", "1", "0", "\n">>

\* "  * pure\n"
LineCommentPure ==
    <<" ", " ", "*", " ", "p", "u", "r", "e", "\n">>

\* "M2 AX 012.0 00:00:00:00\n"
LineRetime ==
    <<"M", "2", " ", "A", "X", " ", "0", "1", "2", ".", "0", " ", "0", "0",
      ":", "0", "0", ":", "0", "0", ":", "0", "0", "\n">>

\* "001 AX V C 00:00:00:00 00:00:01:00 01:00:00:00 01:00:01:00\n"
LineCut1 ==
    <<"0", "0", "1", " ", "A", "X", " ", "V", " ", "C", " ", "0", "0", ":",
      "0", "0", ":", "0", "0", ":", "0", "0", " ", "0", "0", ":", "0", "0",
      ":", "0", "1", ":", "0", "0", " ", "0", "1", ":", "0", "0", ":", "0",
      "0", ":", "0", "0", " ", "0", "1", ":", "0", "0", ":", "0", "1", ":",
      "0", "0", "\n">>

\* "002 BX V C 024 00:59:59:09 01:00:05:15 100:00:07:23 100:00:14:05\n"
LineCut2 ==
    <<"0", "0", "2", " ", "B", "X", " ", "V", " ", "C", " ", "0", "2", "4",
      " ", "0", "0", ":", "5", "9", ":", "5", "9", ":", "0", "9", " ", "0",
      "1", ":", "0", "0", ":", "0", "5", ":", "1", "5", " ", "1", "0", "0",
      ":", "0", "0", ":", "0", "7", ":", "2", "3", " ", "1", "0", "0", ":",
      "0", "0", ":", "1", "4", ":", "0", "5", "\n">>

\* "003 AX V C 9 64 01:00:00:00 01:00:02:07\n"
LineCutFrames ==
    <<"0", "0", "3", " ", "A", "X", " ", "V", " ", "C", " ", "9", " ", "6",
      "4", " ", "0", "1", ":", "0", "0", ":", "0", "0", ":", "0", "0", " ",
      "0", "1", ":", "0", "0", ":", "0", "2", ":", "0", "7", "\n">>

\* "004 AX V C 00:00:00:24 00:00:01:00 01:00:00:00 01:00:01:00\n"
LineCutBadFrame ==
    <<"0", "0", "4", " ", "A", "X", " ", "V", " ", "C", " ", "0", "0", ":",
      "0", "0", ":", "0", "0", ":", "2", "4", " ", "0", "0", ":", "0", "0",
      ":", "0", "1", ":", "0", "0", " ", "0", "1", ":", "0", "0", ":", "0",
      "0", ":", "0", "0", " ", "0", "1", ":", "0", "0", ":", "0", "1", ":",
      "0", "0", "\n">>

\* "005 AX V D 024 00:00:01:00 00:00:02:00 01:00:01:00 01:00:02:00\n"
LineEffect ==
    <<"0", "0", "5", " ", "A", "X", " ", "V", " ", "D", " ", "0", "2", "4",
      " ", "0", "0", ":", "0", "0", ":", "0", "1", ":", "0", "0", " ", "0",
      "0", ":", "0", "0", ":", "0", "2", ":", "0", "0", " ", "0", "1", ":",
      "0", "0", ":", "0", "1", ":", "0", "0", " ", "0", "1", ":", "0", "0",
      ":", "0", "2", ":", "0", "0", "\n">>

\* "007 BL V C 00:00:00:00 00:00:01:00 01:00:01:00 01:00:02:00\n"
LineCutBL ==
    <<"0", "0", "7", " ", "B", "L", " ", "V", " ", "C", " ", "0", "0",
      ":", "0", "0", ":", "0", "0", ":", "0", "0", " ", "0", "0", ":",
      "0", "0", ":", "0", "1", ":", "0", "0", " ", "0", "1", ":", "0",
      "0", ":", "0", "1", ":", "0", "0", " ", "0", "1", ":", "0", "0",
      ":", "0", "2", ":", "0", "0", "\n">>

\* "008 AX A C 00:00:01:00 00:00:02:00 01:00:01:00 01:00:02:00\n"
LineCutAudio ==
    <<"0", "0", "8", " ", "A", "X", " ", "A", " ", "C", " ", "0", "0", ":",
      "0", "0", ":", "0", "1", ":", "0", "0", " ", "0", "0", ":", "0", "0",
      ":", "0", "2", ":", "0", "0", " ", "0", "1", ":", "0", "0", ":", "0",
      "1", ":", "0", "0", " ", "0", "1", ":", "0", "0", ":", "0", "2", ":",
      "0", "0", "\n">>

\* "006\n"
LineShortEvent ==
    <<"0", "0", "6", "\n">>

\* " \x1a\n"
LineBlank ==
    <<" ", "^Z", "\n">>

\* "\t\n"
LineTab ==
    <<"\t", "\n">>

\* "EDL FOOTER\n"
LineOther ==
    <<"E", "D", "L", " ", "F", "O", "O", "T", "E", "R", "\n">>

LinePool ==
    {LineTitle, LineFcmNonDrop, LineFcmDrop, LineCommentLoc,
     LineCommentPure, LineRetime, LineCut1, LineCut2,
     LineCutFrames, LineCutBadFrame, LineCutBL, LineCutAudio,
     LineEffect, LineShortEvent, LineBlank, LineTab, LineOther}

\* The text operations of the loop on each line of the pool.
LineText == [raw \in LinePool |-> Normalize(raw)]
LineTokens == [raw \in LinePool |-> Split(Normalize(raw))]
LineBranch == [raw \in LinePool |-> Classify(Normalize(raw))]

\* Number of lines of the file.
MaxLines == 3

\* The fps argument of read_cmx_edl (default 24).
ParserFps == {2400}

\* EditList.__init__ without file_path: no title, no edits, nothing read.
Init ==
    /\ ps_pc = "new" /\ ps_visitor = "none" /\ ps_fps = 2400
    /\ ps_read = <<>> /\ ps_line = <<>> /\ ps_title = <<>> /\ ps_edits = <<>>
    /\ ps_edit = 0 /\ ps_visits = <<>> /\ ps_previous = 0 /\ ps_err = NoError
    /\ CvIdle
    /\ WkIdle
    /\ EvIdle
    /\ TkIdle
    /\ LsIdle
    /\ ArIdle

\* read_cmx_edl(path, fps, visitor) up to the loop: title and edits reset.
ReadStart ==
    /\ ps_pc = "new"
    /\ ps_pc' = "reading"
    /\ ps_visitor' \in Visitors
    /\ ps_fps' \in ParserFps
    /\ ps_title' = <<>>
    /\ ps_edits' = <<>>
    /\ ps_edit' = 0
    /\ ps_read' = <<>>
    /\ ps_line' = <<>>
    /\ ps_visits' = <<>>
    /\ ps_previous' = 0
    /\ ps_err' = NoError
    /\ UNCHANGED <<cv_vars, wk_vars, ev_vars, tk_vars, ls_vars,
                 ar_vars>>

\* The loop takes one more line from the file.
TakeLine(raw) ==
    /\ ps_pc = "reading"
    /\ Len(ps_read) < MaxLines
    /\ ps_read' = Append(ps_read, raw)
    /\ ps_line' = LineText[raw]
    /\ UNCHANGED <<ps_visitor, ps_fps, cv_vars, wk_vars, ev_vars, tk_vars, ls_vars,
                 ar_vars>>

\* Mutant of RaiseAtLine: the except clause notes the exception and the loop
\* goes on with the next line.
RaiseAtLine_GoesOn(kind) ==
    /\ ps_pc' = "reading"
    /\ ps_err' = ExceptClause(kind, "line", ps_line')

\* The iteration raises: the except clause re-raises, the call is left.
RaiseAtLine(kind) ==
    /\ ps_pc' = "failed"
    /\ ps_err' = ExceptClause(kind, "line", ps_line')

\* The iteration ends normally.
NextIteration ==
    /\ ps_pc' = "reading"
    /\ ps_err' = NoError

\* if not line: continue
ReadBlank ==
    \E raw \in LinePool :
        /\ LineBranch[raw] = "blank"
        /\ TakeLine(raw)
        /\ NextIteration
        /\ UNCHANGED <<ps_title, ps_edits, ps_edit, ps_visits,
                     ps_previous>>

\* line.startswith("TITLE:")
ReadTitle ==
    \E raw \in LinePool :
        LET line_tokens == LineTokens[raw]
        IN  /\ LineBranch[raw] = "title"
            /\ TakeLine(raw)
            /\ NextIteration
            /\ ps_title' = IF Len(line_tokens) > 1
                           THEN JoinTokens(Tail(line_tokens))
                           ELSE ps_title
            /\ UNCHANGED <<ps_edits, ps_edit, ps_visits,
                     ps_previous>>

\* line.startswith("FCM:"): line_tokens[1] is one token of line.split(), and
\* is compared with "DROP FRAME".
ReadFcm ==
    \E raw \in LinePool :
        LET line_tokens == LineTokens[raw]
        IN  /\ LineBranch[raw] = "fcm"
            /\ TakeLine(raw)
            /\ IF Len(line_tokens) < 2 THEN RaiseAtLine("IndexError")
               ELSE IF line_tokens[2] = TextDropFrame
                    THEN RaiseAtLine("NotImplementedError")
                    ELSE NextIteration
            /\ UNCHANGED <<ps_title, ps_edits, ps_edit, ps_visits,
                     ps_previous>>

\* line_tokens[0].startswith("*")
ReadComment ==
    \E raw \in LinePool :
        /\ LineBranch[raw] = "comment"
        /\ TakeLine(raw)
        /\ NextIteration
        /\ ps_edits' = IF ps_edit # 0
                       THEN [ps_edits EXCEPT ![ps_edit] =
                                add_comments(@, LineText[raw])]
                       ELSE ps_edits
        /\ UNCHANGED <<ps_title, ps_edit, ps_visits,
                     ps_previous>>

\* line_tokens[0] == "M2"
ReadRetime ==
    \E raw \in LinePool :
        /\ LineBranch[raw] = "retime"
        /\ TakeLine(raw)
        /\ IF ps_edit = 0
           THEN RaiseAtLine("RuntimeError") /\ ps_edits' = ps_edits
           ELSE /\ NextIteration
                /\ ps_edits' = [ps_edits EXCEPT ![ps_edit] =
                                   add_retime(@, LineTokens[raw])]
        /\ UNCHANGED <<ps_title, ps_edit, ps_visits,
                     ps_previous>>

\* if edit and visitor: visitor(edit). The visitor changes the edit in place
\* or raises.
VisitResult(r, edits, edit) ==
    [called |-> TRUE, err |-> r.err, edits |-> [edits EXCEPT ![edit] = r.v]]

VisitEdit(visitor, edits, edit) ==
    IF edit = 0 \/ visitor = "none"
    THEN [called |-> FALSE, err |-> "none", edits |-> edits]
    ELSE VisitResult(CallVisitor(visitor, edits[edit]), edits, edit)

\* EditProcessor.process: self._previous_edit = edit, once process_edit has
\* returned.
PreviousEdit(visitor, visit, edit, previous) ==
    IF visitor = "EditProcessor.process" /\ visit.called /\ visit.err = "none"
    THEN edit
    ELSE previous

\* EditEvent(id=int(line_tokens[0]), reel=line_tokens[1],
\*           channels=line_tokens[2], source_in=line_tokens[-4], ...)
CutEvent(line_tokens, fps) ==
    LET tcs == CutTimecodeTokens(line_tokens)
    IN  EditEvent(IntOf(line_tokens[1]), line_tokens[2], line_tokens[3],
                  tcs[1], tcs[2], tcs[3], tcs[4], fps)

\* Mutant of AppendCut: the new edit is appended but the current edit stays
\* the one before.
AppendCut_KeepsCurrent(new, edits, edit) ==
    IF new.err # "none"
    THEN [err |-> new.err, edits |-> edits, edit |-> edit]
    ELSE [err |-> "none", edits |-> Append(edits, new.v), edit |-> edit]

\* edit = EditEvent(...); self._edits.append(edit)
AppendCut(new, edits, edit) ==
    IF new.err # "none"
    THEN [err |-> new.err, edits |-> edits, edit |-> edit]
    ELSE [err |-> "none", edits |-> Append(edits, new.v), edit |-> Len(edits) + 1]

\* The numeric branch after the visitor: type = line_tokens[3]; a cut makes a
\* new edit, any other type is added to the current edit as an effect.
EventLine(line_tokens, edits, edit, fps) ==
    IF Len(line_tokens) < 4
    THEN [err |-> "IndexError", edits |-> edits, edit |-> edit]
    ELSE IF line_tokens[4] = TextC
    THEN AppendCut(CutEvent(line_tokens, fps), edits, edit)
    ELSE IF edit = 0
    THEN [err |-> "RuntimeError", edits |-> edits, edit |-> edit]
    ELSE [err |-> "none",
          edits |-> [edits EXCEPT ![edit] = add_effect(@, line_tokens)],
          edit |-> edit]

\* line_tokens[0].isdigit(): the visitor is called with the current edit,
\* then the line is processed.
ReadEvent ==
    \E raw \in LinePool :
        /\ LineBranch[raw] = "event"
        /\ TakeLine(raw)
        /\ \E visit \in {VisitEdit(ps_visitor, ps_edits, ps_edit)} :
            /\ ps_visits' = IF visit.called THEN Append(ps_visits, ps_edit)
                            ELSE ps_visits
            /\ ps_previous' = PreviousEdit(ps_visitor, visit, ps_edit,
                                            ps_previous)
            /\ IF visit.err # "none"
               THEN /\ RaiseAtLine(visit.err)
                    /\ ps_edits' = visit.edits
                    /\ ps_edit' = ps_edit
               ELSE \E out \in {EventLine(LineTokens[raw], visit.edits,
                                          ps_edit, ps_fps)} :
                        /\ IF out.err # "none" THEN RaiseAtLine(out.err)
                           ELSE NextIteration
                        /\ ps_edits' = out.edits
                        /\ ps_edit' = out.edit
        /\ UNCHANGED ps_title

\* No branch of the chain is taken (nothing happens), or the chain itself
\* raises on a line without tokens.
ReadOther ==
    \E raw \in LinePool :
        /\ LineBranch[raw] \in {"other", "no_tokens"}
        /\ TakeLine(raw)
        /\ IF LineBranch[raw] = "no_tokens"
           THEN RaiseAtLine("IndexError")
           ELSE NextIteration
        /\ UNCHANGED <<ps_title, ps_edits, ps_edit, ps_visits,
                     ps_previous>>

\* The file is exhausted: the visitor is called with the last edit.
EndOfInput ==
    /\ ps_pc = "reading"
    /\ \E visit \in {VisitEdit(ps_visitor, ps_edits, ps_edit)} :
        /\ ps_visits' = IF visit.called THEN Append(ps_visits, ps_edit)
                        ELSE ps_visits
        /\ ps_previous' = PreviousEdit(ps_visitor, visit, ps_edit, ps_previous)
        /\ ps_pc' = IF visit.err # "none" THEN "failed" ELSE "done"
        /\ ps_err' = IF visit.err # "none"
                     THEN ExceptClause(visit.err, "flush", ps_line)
                     ELSE NoError
        /\ ps_edits' = visit.edits
    /\ UNCHANGED <<ps_visitor, ps_fps, ps_read, ps_line, ps_title, ps_edit>>
    /\ UNCHANGED <<cv_vars, wk_vars, ev_vars, tk_vars, ls_vars,
                 ar_vars>>

Next ==
    \/ ReadStart
    \/ ReadBlank
    \/ ReadTitle
    \/ ReadFcm
    \/ ReadComment
    \/ ReadRetime
    \/ ReadEvent
    \/ ReadOther
    \/ EndOfInput

Spec == Init /\ [][Next]_vars

-----------------------------------------------------------------------------
(* What a parse has read, seen from the lines taken so far.                *)

Last(s) == s[Len(s)]

\* A line that takes the numeric branch with type "C".
IsCutLine(raw) ==
    /\ LineBranch[raw] = "event"
    /\ Len(LineTokens[raw]) >= 4
    /\ LineTokens[raw][4] = TextC

IsCommentLine(raw) == LineBranch[raw] = "comment"

\* The line as the file holds it, without its line terminator.
AsWritten(raw) ==
    IF raw # <<>> /\ Last(raw) = "\n" THEN SubSeq(raw, 1, Len(raw) - 1) ELSE raw

\* The position in the file of the cut lines read so far, and of the k-th.
CutPositions == {i \in 1..Len(ps_read) : IsCutLine(ps_read[i])}

NthCut(k) ==
    CHOOSE i \in CutPositions : Cardinality({j \in CutPositions : j < i}) = k - 1

\* The comment lines read after the k-th cut line and before the next one.
CommentLinesOf(k) ==
    LET to == IF k < Cardinality(CutPositions) THEN NthCut(k + 1)
              ELSE Len(ps_read) + 1
    IN  SelectSeq(SubSeq(ps_read, NthCut(k) + 1, to - 1), IsCommentLine)

\* The last line read was a cut line and processing it raised.
CutLineRaised ==
    /\ ps_pc = "failed"
    /\ ps_err.at = "line"
    /\ IsCutLine(Last(ps_read))

\* The cut lines that were processed to their end.
CutsDone ==
    IF CutLineRaised THEN Cardinality(CutPositions) - 1
    ELSE Cardinality(CutPositions)

\* The last four tokens of a line.
LastFour(tokens) ==
    <<tokens[Len(tokens) - 3], tokens[Len(tokens) - 2],
      tokens[Len(tokens) - 1], tokens[Len(tokens)]>>

\* What Timecode makes of each of the last four tokens of a cut line of the
\* pool, at each fps a parse is made with.
TrailingTimecodes ==
    [raw \in {r \in LinePool : IsCutLine(r)} |->
        [fps \in ParserFps |->
            [n \in 1..4 |-> Timecode(LastFour(LineTokens[raw])[n], fps, FALSE)]]]

\* Timecode accepts each of the last four tokens at the parse's fps.
TrailingTokensAccepted(raw) ==
    \A k \in 1..4 : TrailingTimecodes[raw][ps_fps][k].err = "none"

\* C1: when a parse made with a visitor returns, the visitor has been called
\* exactly once with each edit of the list, in order: N calls for N edits,
\* none visited twice, the last one visited by the flush at the end of input.
C1_VisitedExactlyOnce ==
    (ps_pc = "done" /\ ps_visitor # "none") =>
        ps_visits = [i \in 1..Len(ps_edits) |-> i]

\* C6: once the line "FCM: DROP FRAME" has been read the parse has ended with
\* the unsupported-feature error raised by that line, and the line
\* "FCM: NON DROP FRAME" raises nothing.
C6_DropFrameFcmRaises ==
    /\ (ps_read # <<>> /\ Last(ps_read) = LineFcmDrop) =>
            /\ ps_pc = "failed"
            /\ ps_err.kind = "NotImplementedError"
            /\ ps_err.at = "line"
    /\ (ps_read # <<>> /\ Last(ps_read) = LineFcmNonDrop) => ps_err.at # "line"

\* C9 as stated: every cut line read has appended one edit, in file order,
\* whose id, reel and channels are the first three tokens and whose four
\* timecodes read as the last four tokens of the line.
C9_CutLineAppendsEditAsWritten ==
    /\ Len(ps_edits) = Cardinality(CutPositions)
    /\ \A k \in 1..Len(ps_edits) :
          LET tokens == LineTokens[ps_read[NthCut(k)]]
              e == ps_edits[k]
          IN  /\ e.id = IntOf(tokens[1])
              /\ e.reel = tokens[2]
              /\ e.channels = tokens[3]
              /\ <<TimecodeStr(e.source_in), TimecodeStr(e.source_out),
                   TimecodeStr(e.record_in), TimecodeStr(e.record_out)>>
                 = LastFour(tokens)

\* C9: every cut line appends exactly one new edit, in file order, unless
\* processing it raises, which happens exactly when the visitor raises on the
\* previous edit or Timecode rejects one of the last four tokens at the
\* parse's fps; the edit has id = int(first token), reel = second token,
\* channels = third token, and as source_in, source_out, record_in and
\* record_out the Timecodes built from the last four tokens in that order (a
\* bare frame number being converted at that fps), whatever the number of
\* tokens in between.
C9_CutLineAppendsEdit ==
    /\ Len(ps_edits) = CutsDone
    /\ \A k \in 1..Len(ps_edits) :
          LET tokens == LineTokens[ps_read[NthCut(k)]]
              e == ps_edits[k]
          IN  /\ e.id = IntOf(tokens[1])
              /\ e.reel = tokens[2]
              /\ e.channels = tokens[3]
              /\ TrailingTokensAccepted(ps_read[NthCut(k)])
              /\ <<e.source_in, e.source_out, e.record_in, e.record_out>>
                 = [n \in 1..4 |->
                       TrailingTimecodes[ps_read[NthCut(k)]][ps_fps][n].v]
    /\ (ps_read # <<>> /\ IsCutLine(Last(ps_read))) =>
          (CutLineRaised <=>
              \/ ~TrailingTokensAccepted(Last(ps_read))
              \/ /\ ps_visitor \in {"failing_property_override",
                                   "bare_raise_visitor"}
                 /\ Cardinality(CutPositions) > 1)

\* A second cut line with a token between the type and the timecodes, and a
\* cut line whose source timecodes are frame numbers, each made an edit.
C9_Witness ==
    /\ ps_pc = "reading"
    /\ Len(ps_read) = 3
    /\ ps_read[2] = LineCut2
    /\ ps_read[3] = LineCutFrames
    /\ Len(ps_edits) = 3
    /\ ps_edit = 3
    /\ ps_edits[2].id = 2
    /\ TimecodeStr(ps_edits[2].source_in) = TextTc5959
    /\ to_frame(ps_edits[3].source_out).v = 64

\* C10 as stated: a comment line raises nothing, and the comments of each
\* edit are the comment lines, as the file holds them, read between its cut
\* line and the next, in file order.
C10_CommentsVerbatim ==
    /\ (ps_read # <<>> /\ IsCommentLine(Last(ps_read))) => ps_err.at # "line"
    /\ \A k \in 1..Len(ps_edits) :
          ps_edits[k].comments =
              [i \in 1..Len(CommentLinesOf(k)) |-> AsWritten(CommentLinesOf(k)[i])]

\* C10: a comment line raises nothing; read before any cut line it leaves
\* the list without edits; and the comments of each edit are the comment
\* lines read between its cut line and the next, in file order, each as it
\* reads once the end-of-file marks and the spaces and newlines around it are
\* removed.
C10_CommentsOfCurrentEdit ==
    /\ (ps_read # <<>> /\ IsCommentLine(Last(ps_read))) => ps_err.at # "line"
    /\ CutPositions = {} => ps_edits = <<>>
    /\ \A k \in 1..Len(ps_edits) :
          ps_edits[k].comments =
              [i \in 1..Len(CommentLinesOf(k)) |-> LineText[CommentLinesOf(k)[i]]]

\* A comment before any edit was dropped, and two comments read after a cut
\* line are held by its edit in file order.
C10_Witness ==
    \/ /\ ps_pc = "reading"
       /\ ps_read = <<LineCut1, LineCommentPure, LineCommentLoc>>
       /\ Len(ps_edits[1].comments) = 2
       /\ ps_edits[1].comments[1] = <<"*", " ", "p", "u", "r", "e">>
    \/ /\ ps_pc = "done"
       /\ ps_read = <<LineCommentLoc, LineCut1, LineCommentPure>>
       /\ Len(ps_edits) = 1
       /\ Len(ps_edits[1].comments) = 1

\* C11: once read_cmx_edl has failed, the EditList holds no edits.
C11_NoEditsAfterFailure ==
    ps_pc = "failed" => ps_edits = <<>>

\* C12: an exception raised while a line is processed leaves read_cmx_edl
\* as an exception of the same kind, whose message carries the file path and
\* the text of the line being processed.
C12_SameKindWithPathAndLine ==
    (ps_pc = "failed" /\ ps_err.at = "line") =>
        /\ ps_err.kind = ps_err.raised
        /\ ps_err.wrapped
        /\ ps_err.line = AsWritten(Last(ps_read))

-----------------------------------------------------------------------------
(* Timecode instances: one construction, then str().                       *)

\* The fields of the texts passed to Timecode.
TkFields ==
    {0, 23, 24, 112, 999, 1000} \X {0, 59, 60} \X {0, 59, 60}
        \X {0, 23, 24, 29, 30, 59, 60}

\* The delimiters the comment of Timecode.__init__ lists before the frames.
TkDelimiters == {":", ";", ",", "."}

\* Frame numbers passed as text ("12345" is the one of the tests).
TkFrameTexts == {DecStr(n) : n \in {0, 23, 24, 1800, 12345, 86400}}

\* Frame numbers written as int() also takes them: "+9", " 9", "9\n", "-9"
\* and "-864000" (ten hours before zero at 24 fps).
TkSignedTexts ==
    {<<"+", "9">>, <<" ", "9">>, <<"9", "\n">>, <<"-", "9">>,
     <<"-">> \o DecStr(864000)}

TkTexts ==
    {FormatTimecode(t[1], t[2], t[3], d, t[4]) : t \in TkFields, d \in TkDelimiters}
    \cup TkFrameTexts
    \cup TkSignedTexts
    \cup {<<"1", ":", "0", "2", ":", "0", "3", ":", "0", "4">>}

TkInit ==
    /\ tk_pc = "new"
    /\ tk_text \in TkTexts
    /\ tk_fps \in FpsArguments
    /\ tk_given \in BOOLEAN
    /\ tk_drop \in (IF tk_given THEN BOOLEAN ELSE {FALSE})
    /\ tk_obj = <<>>
    /\ tk_str = <<>>
    /\ CvIdle
    /\ WkIdle
    /\ EvIdle
    /\ PsIdle
    /\ LsIdle
    /\ ArIdle

\* Timecode(timecode_string, fps[, drop])
TkConstruct ==
    /\ tk_pc = "new"
    /\ tk_obj' = Timecode(tk_text, tk_fps, tk_drop)
    /\ tk_pc' = "built"
    /\ UNCHANGED <<tk_text, tk_fps, tk_given, tk_drop, tk_str>>
    /\ UNCHANGED <<cv_vars, wk_vars, ev_vars, ps_vars, ls_vars, ar_vars>>

\* str(tc)
TkStr ==
    /\ tk_pc = "built"
    /\ tk_obj.err = "none"
    /\ tk_str' = TimecodeStr(tk_obj.v)
    /\ tk_pc' = "shown"
    /\ UNCHANGED <<tk_text, tk_fps, tk_given, tk_drop, tk_obj>>
    /\ UNCHANGED <<cv_vars, wk_vars, ev_vars, ps_vars, ls_vars, ar_vars>>

TkNext ==
    \/ TkConstruct
    \/ TkStr

SpecTimecode == TkInit /\ [][TkNext]_vars

\* A text written as hours, ":", two digits, ":", two digits, a delimiter
\* and two digits, and the numbers written in it.
IsLabelText(text) ==
    /\ Len(text) >= 11
    /\ text[Len(text) - 8] = ":"
    /\ text[Len(text) - 5] = ":"
    /\ text[Len(text) - 2] \in TkDelimiters
    /\ \A i \in (1..Len(text)) \ {Len(text) - 8, Len(text) - 5, Len(text) - 2} :
          IsDigit(text[i])

WrittenFields(text) ==
    [hours   |-> IntOf(SubSeq(text, 1, Len(text) - 9)),
     minutes |-> IntOf(SubSeq(text, Len(text) - 7, Len(text) - 6)),
     seconds |-> IntOf(SubSeq(text, Len(text) - 4, Len(text) - 3)),
     frames  |-> IntOf(SubSeq(text, Len(text) - 1, Len(text)))]

\* The delimiter before the frames field is one of ";", "," and ".".
HasDropDelimiter(text) ==
    IsLabelText(text) /\ text[Len(text) - 2] \in {";", ",", "."}

\* C13: with drop requested and an fps other than 29.97 and 59.94,
\* frame_from_timecode, timecode_from_frame and the Timecode constructor (on
\* a frame number and on an hh:mm:ss:ff text) raise NotImplementedError.
C13_UnsupportedDropFpsRaises ==
    (tk_drop /\ ~DropSupported(tk_fps)) =>
        /\ frame_from_timecode(tk_text, tk_fps, tk_drop).err = "NotImplementedError"
        /\ IsDigitStr(tk_text) =>
              timecode_from_frame(IntOf(tk_text), tk_fps, tk_drop).err
                  = "NotImplementedError"
        /\ (tk_pc \in {"built", "shown"}
                /\ (IsDigitStr(tk_text) \/ IsLabelText(tk_text))) =>
              tk_obj.err = "NotImplementedError"

\* C14: a text with a drop-frame delimiter before the frames, passed with
\* drop explicitly False, raises the drop-frame-mismatch error: no Timecode.
C14_ConflictingDropRaises ==
    (tk_pc \in {"built", "shown"} /\ tk_given /\ ~tk_drop
        /\ HasDropDelimiter(tk_text)) =>
            tk_obj.err = "BadDropFrameError"

\* C15: when drop is not passed, the Timecode built from a text is drop-frame
\* exactly when the delimiter before the frames is ";", "," or ".", and its
\* string form has ";" before the frames when drop-frame and ":" otherwise.
C15_DropFromNotation ==
    (~tk_given /\ IsLabelText(tk_text)) =>
        /\ (tk_pc \in {"built", "shown"} /\ tk_obj.err = "none") =>
              tk_obj.v.drop = HasDropDelimiter(tk_text)
        /\ tk_pc = "shown" =>
              tk_str[Len(tk_str) - 2] =
                  (IF HasDropDelimiter(tk_text) THEN ";" ELSE ":")

\* C16: a Timecode that was constructed has minutes < 60, seconds < 60 and
\* frames < round(fps); minutes or seconds of 60 or more raise ValueError,
\* frames of round(fps) or more raise BadFrameRateError, and otherwise the
\* Timecode is made with the hours as written, whatever they are.
C16_FieldRangesRoundedFps ==
    tk_pc \in {"built", "shown"} =>
        /\ tk_obj.err = "none" =>
              /\ tk_obj.v.minutes < 60
              /\ tk_obj.v.seconds < 60
              /\ tk_obj.v.frames < RoundFps(tk_fps)
        /\ IsLabelText(tk_text) =>
              LET w == WrittenFields(tk_text)
              IN  IF w.minutes >= 60 \/ w.seconds >= 60
                  THEN tk_obj.err = "ValueError"
                  ELSE IF w.frames >= RoundFps(tk_fps)
                  THEN tk_obj.err = "BadFrameRateError"
                  ELSE tk_obj.err = "none" /\ tk_obj.v.hours = w.hours

-----------------------------------------------------------------------------
(* The comments of an edit that hold no keyword.                        *)

\* C17: on every parsed edit, pure_comments gives the comments that do not
\* match the keyword expression, in order (none when all of them match).
C17_PureCommentsFiltered ==
    \A k \in 1..Len(ps_edits) :
        getattr(ps_edits[k], "pure_comments") =
            Ok(SelectSeq(ps_edits[k].comments,
                         LAMBDA c : ~CommentRegexpMatches(c)))

-----------------------------------------------------------------------------
(* Lines that no branch of the loop recognises.                            *)

\* The line is not empty once normalised and is none of: a TITLE: line, an
\* FCM: line, a comment, an M2 line, a line whose first token is numeric.
IsUnrecognisedLine(raw) ==
    /\ LineText[raw] # <<>>
    /\ ~StartsWith(LineText[raw], TextTitlePrefix)
    /\ ~StartsWith(LineText[raw], TextFcmPrefix)
    /\ \/ LineTokens[raw] = <<>>
       \/ /\ ~StartsWith(LineTokens[raw][1], <<"*">>)
          /\ LineTokens[raw][1] # TextM2
          /\ ~IsDigitStr(LineTokens[raw][1])

\* C18: a non-empty line that is neither a TITLE: line, an FCM: line, a
\* comment, an M2 line nor a line with a numeric first token makes
\* read_cmx_edl raise on that line.
C18_UnrecognisedLineRaises ==
    (ps_read # <<>> /\ IsUnrecognisedLine(Last(ps_read)))
        => (ps_pc = "failed" /\ ps_err.at = "line")

-----------------------------------------------------------------------------
(* Lines that continue the current edit.                                   *)

\* An M2 line.
IsRetimeLine(raw) ==
    /\ LineTokens[raw] # <<>>
    /\ LineTokens[raw][1] = TextM2

\* A line whose first token is numeric and whose type is not C.
IsEffectLine(raw) ==
    /\ Len(LineTokens[raw]) >= 4
    /\ IsDigitStr(LineTokens[raw][1])
    /\ LineTokens[raw][4] # TextC

\* The step reads one more line, an M2 line or an effect line.
ReadsContinuationLine ==
    /\ ps_read' # ps_read
    /\ ps_read' # <<>>
    /\ IsRetimeLine(Last(ps_read')) \/ IsEffectLine(Last(ps_read'))

\* C19: an M2 line or a numeric line whose type is not C raises when there is
\* no current edit; when there is one, the line is recorded on it (the retime
\* is set, or the effect is appended), the current edit stays the same and
\* the list of edits keeps its length.
C19_ContinuationLineRecorded ==
    [][ReadsContinuationLine =>
          IF ps_edit = 0
          THEN ps_pc' = "failed" /\ ps_err'.at = "line"
          ELSE /\ ps_pc' = "reading"
               /\ ps_edit' = ps_edit
               /\ Len(ps_edits') = Len(ps_edits)
               /\ IF IsRetimeLine(Last(ps_read'))
                  THEN ps_edits'[ps_edit].retime # <<>>
                  ELSE ps_edits'[ps_edit].effect =
                           Append(ps_edits[ps_edit].effect,
                                  JoinTokens(LineTokens[Last(ps_read')]))]_vars

-----------------------------------------------------------------------------
(* Black-slug events.                                                      *)

TextBL == <<"B", "L">>

\* An event line whose reel is BL.
IsBLEvent(raw) ==
    /\ Len(LineTokens[raw]) >= 2
    /\ IsDigitStr(LineTokens[raw][1])
    /\ LineTokens[raw][2] = TextBL

\* C20: once a BL event has been read the parse has failed on that line with
\* BadBLError, and no edit of the list was made from a BL event.
C20_BlackSlugRaises ==
    (ps_read # <<>> /\ IsBLEvent(Last(ps_read)))
        => /\ ps_pc = "failed"
           /\ ps_err.at = "line"
           /\ ps_err.kind = "BadBLError"
           /\ \A k \in 1..Len(ps_edits) : ps_edits[k].reel # TextBL

-----------------------------------------------------------------------------
(* EditList.__init__ and repeated read_cmx_edl calls on one EditList.      *)

\* What os.path.splitext gives for the file_path argument of __init__
\* ("none": no file_path).
ListPaths == {"none", ".edl", ".EDL", ".txt"}

\* The visitor argument of these calls.
ListVisitors == {"none", "dummy_visitor"}

\* NotImplementedError raised by __init__ itself, outside read_cmx_edl.
RefusedPath ==
    [kind |-> "NotImplementedError", at |-> "init",
     raised |-> "NotImplementedError", wrapped |-> FALSE, line |-> <<>>]

\* Mutant of BeginRead: the edits of the previous call are kept.
BeginRead_KeepsEdits(visitors) ==
    /\ ps_pc' = "reading"
    /\ ps_visitor' \in visitors
    /\ ps_fps' \in ParserFps
    /\ ps_title' = <<>>
    /\ ps_edits' = ps_edits
    /\ ps_edit' = 0
    /\ ps_read' = <<>>
    /\ ps_line' = <<>>
    /\ ps_visits' = <<>>
    /\ ps_previous' = 0
    /\ ps_err' = NoError
    /\ UNCHANGED <<cv_vars, wk_vars, ev_vars, tk_vars, ar_vars>>

\* read_cmx_edl up to the loop: self._title = None, self._edits = [],
\* edit = None.
BeginRead(visitors) ==
    /\ ps_pc' = "reading"
    /\ ps_visitor' \in visitors
    /\ ps_fps' \in ParserFps
    /\ ps_title' = <<>>
    /\ ps_edits' = <<>>
    /\ ps_edit' = 0
    /\ ps_read' = <<>>
    /\ ps_line' = <<>>
    /\ ps_visits' = <<>>
    /\ ps_previous' = 0
    /\ ps_err' = NoError
    /\ UNCHANGED <<cv_vars, wk_vars, ev_vars, tk_vars, ar_vars>>

\* No EditList yet.
ListInit ==
    /\ ps_pc = "none" /\ ps_visitor = "none" /\ ps_fps = 2400
    /\ ps_read = <<>> /\ ps_line = <<>> /\ ps_title = <<>> /\ ps_edits = <<>>
    /\ ps_edit = 0 /\ ps_visits = <<>> /\ ps_previous = 0 /\ ps_err = NoError
    /\ CvIdle
    /\ WkIdle
    /\ EvIdle
    /\ TkIdle
    /\ LsIdle
    /\ ArIdle

\* EditList(fps, file_path, visitor): without file_path the list is empty;
\* with one whose extension is not ".edl" NotImplementedError is raised;
\* otherwise read_cmx_edl is called.
EditListInit ==
    /\ ps_pc = "none"
    /\ \E path \in ListPaths :
          /\ ls_path' = path
          /\ ls_prior' = <<>>
          /\ IF path = "none"
             THEN /\ ps_pc' = "new"
                  /\ UNCHANGED <<ps_visitor, ps_fps, ps_read, ps_line, ps_title,
                                 ps_edits, ps_edit, ps_visits, ps_previous,
                                 ps_err>>
                  /\ UNCHANGED <<cv_vars, wk_vars, ev_vars, tk_vars, ar_vars>>
             ELSE IF path # ".edl"
             THEN /\ ps_pc' = "refused"
                  /\ ps_err' = RefusedPath
                  /\ UNCHANGED <<ps_visitor, ps_fps, ps_read, ps_line, ps_title,
                                 ps_edits, ps_edit, ps_visits, ps_previous>>
                  /\ UNCHANGED <<cv_vars, wk_vars, ev_vars, tk_vars, ar_vars>>
             ELSE BeginRead(ListVisitors)

\* read_cmx_edl(path, fps, visitor) called on the EditList, whatever was read
\* into it before.
ReadAgain ==
    /\ ps_pc \in {"new", "done", "failed"}
    /\ ls_prior' = IF ps_pc = "new" THEN ls_prior
                   ELSE [title |-> ps_title, edits |-> Len(ps_edits)]
    /\ UNCHANGED ls_path
    /\ BeginRead(ListVisitors)

\* Files of title lines and event lines.
ListNext ==
    \/ EditListInit
    \/ ReadAgain
    \/ ReadTitle
    \/ ReadEvent
    \/ EndOfInput

SpecList == ListInit /\ [][ListNext]_vars

\* The title the lines read so far give: the tokens after "TITLE:" of the
\* last title line that has any (None when there is no such line).
TitleRead ==
    LET at == {i \in 1..Len(ps_read) :
                  /\ LineBranch[ps_read[i]] = "title"
                  /\ Len(LineTokens[ps_read[i]]) > 1}
    IN  IF at = {} THEN <<>>
        ELSE JoinTokens(Tail(LineTokens[ps_read[CHOOSE i \in at :
                                                   \A j \in at : j <= i]]))

\* C21: when a read_cmx_edl call returns, the title is the one the file just
\* read gives (None without a title line) and the edits are those of the cut
\* lines of that file, one each and in order, whatever earlier calls on the
\* same EditList left.
C21_RebuiltFromScratch ==
    ps_pc = "done" =>
        /\ ps_title = TitleRead
        /\ Len(ps_edits) = Cardinality(CutPositions)
        /\ \A k \in 1..Len(ps_edits) :
              ps_edits[k].id = IntOf(LineTokens[ps_read[NthCut(k)]][1])

\* A call that found a title and two edits was followed, on the same
\* EditList, by one on a file with no title line and one cut line.
C21_Witness ==
    /\ ps_pc = "done"
    /\ ls_prior # <<>>
    /\ ls_prior.title # <<>>
    /\ ls_prior.edits = 2
    /\ ps_title = <<>>
    /\ Len(ps_edits) = 1

\* C24: an EditList constructed with a file_path whose extension is ".edl"
\* or ".EDL" has parsed the file; with any other extension the constructor
\* has raised NotImplementedError and read nothing.
C24_EdlExtensionAnyCase ==
    (ps_pc # "none" /\ ls_path # "none") =>
        IF ls_path \in {".edl", ".EDL"}
        THEN ps_pc # "refused"
        ELSE /\ ps_pc = "refused"
             /\ ps_err.kind = "NotImplementedError"
             /\ ps_read = <<>>

-----------------------------------------------------------------------------
(* python/edl/timecode.py: Timecode.__add__, __radd__, __sub__, __rsub__   *)

\* An operand that is a Timecode, or an int.
TcOperand(tc) == [kind |-> "tc", tc |-> tc, n |-> 0]
IntOperand(n) == [kind |-> "int", tc |-> <<>>, n |-> n]

\* right.to_frame() for a Timecode, right itself for an int.
OperandFrames(right) ==
    IF right.kind = "tc" THEN to_frame(right.tc) ELSE Ok(right.n)

\* self.from_frame(l + sign * r, self._fps, self._drop), unless a
\* to_frame() raised.
Combined(self, l, r, sign) ==
    IF l.err # "none" THEN Raise(l.err)
    ELSE IF r.err # "none" THEN Raise(r.err)
    ELSE from_frame(l.v + sign * r.v, self.fps, self.drop)

\* Mutant of Timecode_add: the result is made at the right operand's fps
\* and drop flag when that operand is a Timecode.
Timecode_add_RightRate(self, right) ==
    IF right.kind = "tc"
    THEN Combined(right.tc, to_frame(self), OperandFrames(right), 1)
    ELSE Combined(self, to_frame(self), OperandFrames(right), 1)

\* Timecode.__add__
Timecode_add(self, right) ==
    Combined(self, to_frame(self), OperandFrames(right), 1)

\* Timecode.__radd__
Timecode_radd(self, left) == Timecode_add(self, left)

\* Timecode.__sub__
Timecode_sub(self, right) ==
    Combined(self, to_frame(self), OperandFrames(right), -1)

\* Timecode.__rsub__
Timecode_rsub(self, left) == Timecode_sub(self, left)

\* The Timecodes operated on: the texts below at 24 and 29.97 fps, drop-frame
\* or not.
ArTexts ==
    {<<"0", "0", ":", "0", "0", ":", "0", "0", ":", "0", "0">>,
     <<"0", "0", ":", "0", "0", ":", "0", "0", ":", "0", "1">>,
     <<"0", "0", ":", "0", "0", ":", "5", "9", ":", "2", "3">>,
     <<"0", "0", ":", "0", "1", ":", "0", "0", ":", "0", "0">>,
     <<"0", "1", ":", "0", "0", ":", "0", "0", ":", "0", "0">>,
     <<"9", "9", "9", ":", "5", "9", ":", "5", "9", ":", "2", "3">>}

ArFpsInputs == {2400, 2997}

ArTimecodes ==
    {Timecode(t, fps, drop).v :
        <<t, fps, drop>> \in
            {x \in ArTexts \X ArFpsInputs \X BOOLEAN :
                Timecode(x[1], x[2], x[3]).err = "none"}}

\* The numbers of frames operated with.
ArCounts == {0, 1, 1799, 107892}

ArOperands ==
    {TcOperand(tc) : tc \in ArTimecodes} \cup {IntOperand(n) : n \in ArCounts}

\* The operators: a + b, n + a, a - b, n - a.
ArOps == {"add", "radd", "sub", "rsub"}

\* The frame number the operation is to give, when both operands have one.
ArExpected(a, b, op) ==
    IF op \in {"add", "radd"}
    THEN to_frame(a).v + OperandFrames(b).v
    ELSE to_frame(a).v - OperandFrames(b).v

BothHaveFrames(a, b) ==
    to_frame(a).err = "none" /\ OperandFrames(b).err = "none"

\* Two operands and an operator; the reflected operators are entered with an
\* int on the left, and a difference is not negative.
ArInit ==
    /\ ar_pc = "new"
    /\ ar_a \in ArTimecodes
    /\ ar_b \in ArOperands
    /\ ar_op \in ArOps
    /\ ar_op \in {"radd", "rsub"} => ar_b.kind = "int"
    /\ (ar_op \in {"sub", "rsub"} /\ BothHaveFrames(ar_a, ar_b))
            => ArExpected(ar_a, ar_b, ar_op) >= 0
    /\ ar_out = <<>>
    /\ CvIdle
    /\ WkIdle
    /\ EvIdle
    /\ PsIdle
    /\ TkIdle
    /\ LsIdle

ArDone(out) ==
    /\ ar_pc = "new"
    /\ ar_pc' = "done"
    /\ ar_out' = out
    /\ UNCHANGED <<ar_a, ar_b, ar_op>>
    /\ UNCHANGED <<cv_vars, wk_vars, ev_vars, ps_vars, tk_vars, ls_vars>>

\* a + b
ArAdd == ar_op = "add" /\ ArDone(Timecode_add(ar_a, ar_b))

\* n + a
ArRadd == ar_op = "radd" /\ ArDone(Timecode_radd(ar_a, ar_b))

\* a - b
ArSub == ar_op = "sub" /\ ArDone(Timecode_sub(ar_a, ar_b))

\* n - a
ArRsub == ar_op = "rsub" /\ ArDone(Timecode_rsub(ar_a, ar_b))

ArNext ==
    \/ ArAdd
    \/ ArRadd
    \/ ArSub
    \/ ArRsub

SpecArith == ArInit /\ [][ArNext]_vars

\* The operation a + b or a - b has been made on operands that both have a
\* frame number.
ArClaimed ==
    /\ ar_pc = "done"
    /\ ar_op \in {"add", "sub"}
    /\ BothHaveFrames(ar_a, ar_b)

\* The result is a Timecode of the expected frame number, with a's fps and
\* drop flag.
ArResultAsExpected ==
    /\ ar_out.err = "none"
    /\ to_frame(ar_out.v) = Ok(ArExpected(ar_a, ar_b, ar_op))
    /\ ar_out.v.fps = ar_a.fps
    /\ ar_out.v.drop = ar_a.drop

\* C22 as stated: whenever the result is not negative, a + b, a + n, a - b
\* and a - n give a Timecode whose frame number is the sum or difference of
\* the operands' frame numbers, with a's fps and drop flag.
C22_ArithmeticInFramesAnyHours ==
    ArClaimed => ArResultAsExpected

\* C22 amended: the same, for results whose timecode has an hours field of
\* at most three digits; and an operand without a frame number (drop-frame
\* at an fps other than 29.97 and 59.94) makes the operation raise
\* NotImplementedError.
C22_ArithmeticInFrames ==
    /\ (ArClaimed
          /\ HoursDigits(timecode_from_frame(ArExpected(ar_a, ar_b, ar_op),
                                             ar_a.fps, ar_a.drop).v)
                <= MaxFieldDigits)
        => ArResultAsExpected
    /\ (ar_pc = "done" /\ ~BothHaveFrames(ar_a, ar_b))
        => ar_out = Raise("NotImplementedError")

\* A non-drop Timecode at 24 fps was subtracted from a drop-frame one at
\* 29.97 fps, and the difference is a drop-frame Timecode at 29.97 fps.
C22_Witness ==
    /\ ArClaimed
    /\ ar_op = "sub"
    /\ ar_b.kind = "tc"
    /\ ar_a.drop /\ ar_a.fps = 2997
    /\ ~ar_b.tc.drop /\ ar_b.tc.fps = 2400
    /\ to_frame(ar_b.tc).v > 0
    /\ ar_out.err = "none"
    /\ ar_out.v.drop /\ ar_out.v.fps = 2997
    /\ to_frame(ar_out.v).v = to_frame(ar_a).v - to_frame(ar_b.tc).v
    /\ to_frame(ar_out.v).v > 0

-----------------------------------------------------------------------------
(* Audio events.                                                           *)

\* The channels field of an audio-only event.
TextA == <<"A">>

\* C23: no edit of the list was made from an event whose channels are audio
\* only: audio events are left out.
C23_AudioEventsIgnored ==
    \A k \in 1..Len(ps_edits) : ps_edits[k].channels # TextA

-----------------------------------------------------------------------------
(* EditEvent.has_effect and EditEvent.has_retime.                          *)

\* C28: on every EditEvent, has_effect is True exactly when an effect line
\* has been added and has_retime is True exactly when a retime has been
\* recorded; neither raises.
C28_HasEffectHasRetime ==
    /\ getattr(ev, "has_effect").err = "none"
    /\ getattr(ev, "has_effect").v = (ev.effect # <<>>)
    /\ getattr(ev, "has_retime").err = "none"
    /\ getattr(ev, "has_retime").v = (ev.retime # <<>>)

-----------------------------------------------------------------------------
(* When the visitor sees an edit.                                          *)

\* The edits the visitor has been called with.
Visited(visits) == {visits[i] : i \in 1..Len(visits)}

\* What the lines after a cut line attach to its edit.
Attached(e) == <<e.comments, e.effect, e.retime>>

\* C25: an edit that has been passed to the visitor gets no comment, effect
\* or retime any more, and when a new edit is made in a parse with a visitor
\* the edit before it has been visited.
C25_VisitedEditIsFinal ==
    [][/\ \A k \in 1..Len(ps_edits) :
             (k \in Visited(ps_visits') /\ k <= Len(ps_edits'))
                 => Attached(ps_edits'[k]) = Attached(ps_edits[k])
       /\ (Len(ps_edits') > Len(ps_edits) /\ Len(ps_edits) > 0
              /\ ps_visitor # "none")
            => Len(ps_edits) \in Visited(ps_visits')]_vars

-----------------------------------------------------------------------------
(* What follows a line that raised.                                        *)

\* C26: an exception raised while a line is processed ends the call at that
\* line: from then on no line is read, the edits stay as they are and the
\* visitor is not called, at the end of input either.
C26_ErrorAbortsParse ==
    [][/\ ps_err'.at = "line" => ps_pc' = "failed"
       /\ ps_err.at = "line" =>
             /\ ps_pc' = "failed"
             /\ UNCHANGED <<ps_read, ps_title, ps_edits, ps_edit, ps_visits>>]_vars

\* A parse with a visitor failed on its second line, a cut line with a
\* frames field out of range, while a line was left to read: the list holds
\* the edit of the first line, which the visitor saw on that second line only.
C26_Witness ==
    /\ ps_pc = "failed"
    /\ ps_err.at = "line"
    /\ ps_err.kind = "BadFrameRateError"
    /\ ps_visitor = "dummy_visitor"
    /\ ps_read = <<LineCut1, LineCutBadFrame>>
    /\ Len(ps_read) < MaxLines
    /\ Len(ps_edits) = 1
    /\ ps_visits = <<1>>

-----------------------------------------------------------------------------
(* Lines of whitespace.                                                    *)

\* The line holds nothing but end-of-file marks and whitespace.
IsWhitespaceLine(raw) ==
    \A i \in 1..Len(raw) : raw[i] = EofMark \/ IsSpace(raw[i])

\* C27: reading a line of end-of-file marks, spaces, tabs, other whitespace
\* and the newline raises nothing and leaves the title, the edits, the
\* current edit and the calls made to the visitor as they were.
C27_WhitespaceLineSkipped ==
    [][(ps_read' # ps_read /\ ps_read' # <<>>
           /\ IsWhitespaceLine(Last(ps_read')))
        => /\ ps_pc' = "reading"
           /\ ps_err' = NoError
           /\ UNCHANGED <<ps_title, ps_edits, ps_edit, ps_visits>>]_vars

-----------------------------------------------------------------------------
(* The current edit and the list of edits.                                 *)

\* C29: at every point of a read_cmx_edl call there is either no current
\* edit and no edit in the list, or the current edit is the last one of the
\* list; and the list has as many edits as cut lines were processed without
\* error since the call began.
C29_CurrentEditIsLast ==
    /\ \/ ps_edit = 0 /\ ps_edits = <<>>
       \/ ps_edit # 0 /\ ps_edit = Len(ps_edits)
    /\ Len(ps_edits) = CutsDone

\* Two cut lines made two edits, the second is the current one, and an
\* effect line read after them left it so.
C29_Witness ==
    /\ ps_pc = "reading"
    /\ ps_read = <<LineCut1, LineCut2, LineEffect>>
    /\ Len(ps_edits) = 2
    /\ ps_edit = 2
    /\ Len(ps_edits[2].effect) = 1

-----------------------------------------------------------------------------
(* Drop-frame labels along a count.                                        *)

\* The (h, m, s, f) read from a text written as hh:mm:ss;ff, the hours
\* taking the digits that are left.
FieldsOfText(text) ==
    <<IntOf(SubSeq(text, 1, Len(text) - 9)),
      IntOf(SubSeq(text, Len(text) - 7, Len(text) - 6)),
      IntOf(SubSeq(text, Len(text) - 4, Len(text) - 3)),
      IntOf(SubSeq(text, Len(text) - 1, Len(text)))>>

\* The (h, m, s, f) that timecode_from_frame writes for a frame in
\* drop-frame mode.
DropLabelOf(frame, fps) ==
    FieldsOfText(timecode_from_frame(frame, fps, TRUE).v)

\* Label t comes before label u.
LabelBefore(t, u) ==
    \E i \in 1..4 : t[i] < u[i] /\ \A j \in 1..(i - 1) : t[j] = u[j]

\* C30: in drop-frame mode at 29.97 and 59.94 timecode_from_frame never
\* gives a label that drop-frame counting skips (seconds 0 and frames below
\* D in a minute that is not a multiple of 10), and the label of each frame
\* comes after the label of the frame before it, so that no two frames of a
\* count have the same label.
C30_NoDroppedLabel ==
    [][\A t \in {DropLabelOf(wk_frame, wk_fps)} :
       \A u \in {DropLabelOf(wk_frame', wk_fps)} :
          /\ ~DroppedLabel(t, wk_fps)
          /\ ~DroppedLabel(u, wk_fps)
          /\ LabelBefore(t, u)]_vars

\* The count at 59.94 has passed the tenth minute, where no label is
\* skipped, after nine minutes that each skipped four.
C30_Witness ==
    /\ wk_fps = 5994 /\ wk_start = 0 /\ wk_frame = 35964
    /\ DropLabelOf(wk_frame, wk_fps) = <<0, 10, 0, 0>>
    /\ DropLabelOf(wk_frame - 1, wk_fps) = <<0, 9, 59, 59>>
    /\ DropLabelOf(3600, wk_fps) = <<0, 1, 0, 4>>

=============================================================================
